---- MODULE Spec2Model ----
(***************************************************************************)
(* Scheduling server: the dependency engine (dep_graph, dep_order) and the *)
(* scheduling engine (Schedule::generate) of src/src/srv/src/algo/mod.rs,  *)
(* over the domain types of src/src/srv/src/data, and the domain store     *)
(* with its RPC handlers of src/src/srv/src/integration.rs.                *)
(***************************************************************************)
EXTENDS Integers, Sequences, FiniteSets, TLC

(***************************************************************************)
(* Bounds of the model.                                                    *)
(***************************************************************************)
\* Number of users in the user map (ids 1..MaxUsers).
MaxUsers == 3
\* Largest min_staff a slot asks for.
MaxStaff == 2
\* Number of task ids (1..MaxTasks).
MaxTasks == 3

UserIds == 1..MaxUsers
TaskIds == 1..MaxTasks

(***************************************************************************)
(* Preference (data/user.rs).  An f32 is modelled by an integer with the   *)
(* same order: -inf < -1.0 < 1.0 < +inf.  NaN never enters (Ord::cmp       *)
(* panics on it) and is not drawn.                                         *)
(***************************************************************************)
INFINITY == 2
NEG_INFINITY == -2
MIN == -1
MAX == 1
PrefSeq == <<NEG_INFINITY, MIN, MAX, INFINITY>>
Prefs == {PrefSeq[i] : i \in 1..Len(PrefSeq)}

(***************************************************************************)
(* TimeInterval (data/slot.rs).  Datetimes are two instants: contains only *)
(* compares endpoints, and two instants give equal, enclosing and disjoint *)
(* intervals.                                                              *)
(***************************************************************************)
DateTimes == {0, 1}
IntervalSeq ==
    <<[start |-> 0, end |-> 0], [start |-> 0, end |-> 1], [start |-> 1, end |-> 1]>>
Intervals == {IntervalSeq[i] : i \in 1..Len(IntervalSeq)}

\* TimeInterval::contains: self completely encloses other.
Contains(self, other) == self.start <= other.start /\ other.end <= self.end

(***************************************************************************)
(* Inputs.  A user's availability is a Vec of (TimeInterval, Preference);  *)
(* a slot is its interval and min_staff, where 0 is None                   *)
(* (Option<NonZeroUsize>); a task is its deps set.                         *)
(***************************************************************************)
Rule(t, p) == [t |-> t, p |-> p]
Slots == [interval : Intervals, min_staff : 0..MaxStaff]

VARIABLES
    tasks,      \* TaskMap: task id -> deps
    users,      \* UserMap: user id -> availability (DOMAIN: the users present)
    slots,      \* the slice of slots handed to generate
    pc,         \* "start", "graph", "topo", "bfs", "dfs", "done"
    graph,      \* dep_graph's return value
    tos,        \* Topo: stack of nodes ready to be emitted
    ordered,    \* Topo: nodes already emitted
    order,      \* the tasks dep_order has yielded so far
    result,     \* Schedule::generate's return value
    SLOTS,          \* static SLOTS: SlotMap (integration.rs)
    TASKS,          \* static TASKS: TaskMap
    USERS,          \* static USERS: UserMap
    NEXT_SLOT_ID,   \* the id counters of id_type! (data/mod.rs)
    NEXT_TASK_ID,
    NEXT_USER_ID,
    NEXT_RULE_ID,
    served,     \* the entity kind whose handlers this run of the server serves
    call,       \* the request served last: handler and argument
    ret,        \* what that handler returned
    handlers    \* the calls in flight: concurrent add_tasks handlers, a traversal

\* The state of the algorithms and the state of the domain store.
algoVars == <<tasks, users, slots, pc, graph, tos, ordered, order, result>>
storeVars == <<SLOTS, TASKS, USERS, NEXT_SLOT_ID, NEXT_TASK_ID, NEXT_USER_ID,
               NEXT_RULE_ID, served, call, ret, handlers>>
vars == <<algoVars, storeVars>>

(***************************************************************************)
(* Pure helpers.                                                           *)
(***************************************************************************)
Range(s) == {s[i] : i \in 1..Len(s)}

MinOf(S) == CHOOSE x \in S : \A y \in S : x <= y
MaxOf(S) == CHOOSE x \in S : \A y \in S : y <= x

\* Matching without the containment test.
MatchingAnyInterval(um, u, slot) ==
    {um[u][i].p : i \in {j \in 1..Len(um[u]) : um[u][j].p > NEG_INFINITY}}

\* The keys of the BTreeMap<Preference, &TimeInterval> collected for user u
\* and the slot: the preferences of the availability entries that pass the
\* filter `*p > Preference::NEG_INFINITY && t.contains(&slot.interval)`.
Matching(um, u, slot) ==
    {um[u][i].p : i \in {j \in 1..Len(um[u]) :
        um[u][j].p > NEG_INFINITY /\ Contains(um[u][j].t, slot.interval)}}

\* filter_map over users.values(): the users whose filtered iterator is not
\* empty, in the iteration order `ord` of the hash map.
IsCandidate(um, u, slot) == Matching(um, u, slot) # {}

Candidates(um, ord, slot) ==
    LET keep(u) == IsCandidate(um, u, slot) IN SelectSeq(ord, keep)

\* prefs.first_key_value(): the first key of a BTreeMap is its least key.
FirstKey(um, u, slot) == MinOf(Matching(um, u, slot))

\* sort_by_cached_key(|..| Reverse(key)): a stable sort, greatest key first.
\* InsertDesc puts x behind every element whose key is >= x's key.
RECURSIVE InsertDesc(_, _, _, _, _)
InsertDesc(um, slot, x, sorted, i) ==
    IF i > Len(sorted) THEN Append(sorted, x)
    ELSE IF FirstKey(um, sorted[i], slot) < FirstKey(um, x, slot)
         THEN SubSeq(sorted, 1, i - 1) \o <<x>> \o SubSeq(sorted, i, Len(sorted))
         ELSE InsertDesc(um, slot, x, sorted, i + 1)

RECURSIVE SortCandidates(_, _, _)
SortCandidates(um, slot, cands) ==
    IF cands = <<>> THEN <<>>
    ELSE InsertDesc(um, slot, cands[Len(cands)],
                    SortCandidates(um, slot, SubSeq(cands, 1, Len(cands) - 1)), 1)

\* Vec::split_off(at): the elements [at, len), counted from 0.
SplitOff(v, at) == SubSeq(v, at + 1, Len(v))

\* SchedulingError.
Understaffed == [kind |-> "Understaffed"]
WouldCycle == [kind |-> "WouldCycle"]
NonExistentTask(id) == [kind |-> "NonExistentTask", id |-> id]

\* The closure generate maps over the slots: the staff of one slot, or
\* Understaffed.

\* StaffOf with the staffing test off by one (<= for <).
StaffOfOffByOne(um, ord, slot) ==
    LET candidates == Candidates(um, ord, slot)
        n == slot.min_staff
    IN  IF n # 0 /\ Len(candidates) <= n THEN [err |-> Understaffed]
        ELSE IF n # 0
             THEN [ok |-> Range(SplitOff(SortCandidates(um, slot, candidates), n))]
             ELSE [ok |-> {}]

StaffOf(um, ord, slot) ==
    LET candidates == Candidates(um, ord, slot)
        n == slot.min_staff
    IN  IF n # 0 /\ Len(candidates) < n THEN [err |-> Understaffed]
        ELSE IF n # 0 /\ Len(candidates) = n THEN [ok |-> Range(candidates)]
        ELSE IF n # 0
             THEN [ok |-> Range(SplitOff(SortCandidates(um, slot, candidates), n))]
             ELSE [ok |-> {}]

IsErr(r) == "err" \in DOMAIN r

\* slots.iter().map(..).collect::<Result<_, _>>().map(Self): the entries in
\* slot order, or the first error met.
RECURSIVE CollectSlots(_, _, _, _)
CollectSlots(um, ord, ss, i) ==
    IF i > Len(ss) THEN [ok |-> <<>>]
    ELSE LET staff == StaffOf(um, ord, ss[i])
         IN  IF IsErr(staff) THEN staff
             ELSE LET rest == CollectSlots(um, ord, ss, i + 1)
                  IN  IF IsErr(rest) THEN rest
                      ELSE [ok |-> <<[slot |-> ss[i], staff |-> staff.ok]>> \o rest.ok]

(***************************************************************************)
(* Dependency engine: dep_graph and dep_order.                             *)
(***************************************************************************)
\* One add_node per task, then one edge (parent, child) per dependency:
\* repeat_n(id, deps.len()).zip(deps), mapped to (key_indices[parent],
\* key_indices[child]).
Edges(dict) == {e \in TaskIds \X DOMAIN dict : e[1] \in dict[e[2]]}

\* key_indices[parent] is HashMap's Index: it panics on a key that is absent.
MissingDeps(dict) == {e \in Edges(dict) : e[1] \notin DOMAIN dict}

\* The nodes reached from the set `from` over at least one edge.
RECURSIVE Reach(_, _)
Reach(from, edges) ==
    LET next == from \cup {e[2] : e \in {x \in edges : x[1] \in from}}
    IN  IF next = from THEN from ELSE Reach(next, edges)

Children(n, edges) == {e[2] : e \in {x \in edges : x[1] = n}}
Parents(n, edges) == {e[1] : e \in {x \in edges : x[2] = n}}

\* IsCyclic that follows only edges between two different nodes.
IsCyclicNoSelfLoop(nodes, edges) ==
    LET proper == {e \in edges : e[1] # e[2]}
    IN  \E n \in nodes : n \in Reach(Children(n, proper), proper)

\* Dag::add_edges fails when the graph with the new edges has a cycle, a
\* self-loop included.
IsCyclic(nodes, edges) ==
    \E n \in nodes : n \in Reach(Children(n, edges), edges)

DepGraph(dict) ==
    IF MissingDeps(dict) # {} THEN [panic |-> TRUE]
    ELSE IF IsCyclic(DOMAIN dict, Edges(dict)) THEN [err |-> WouldCycle]
    ELSE [ok |-> [nodes |-> DOMAIN dict, edges |-> Edges(dict)]]

IsOk(r) == "ok" \in DOMAIN r
IsPanic(r) == "panic" \in DOMAIN r

\* Topo::new: the stack starts with the nodes that have no incoming edge.
Roots(g) == {n \in g.nodes : Parents(n, g.edges) = {}}

\* The sequences that list the set S once each, in any order: the order of
\* node indices and of adjacency lists follows the hash map's iteration.
Orderings(S) ==
    {f \in [1..Cardinality(S) -> S] : \A i, j \in 1..Cardinality(S) : f[i] = f[j] => i = j}

\* Topo::next pops until it finds a node not yet visited.
RECURSIVE PopVisited(_, _)
PopVisited(stack, seen) ==
    IF stack # <<>> /\ stack[Len(stack)] \in seen
    THEN PopVisited(SubSeq(stack, 1, Len(stack) - 1), seen)
    ELSE stack

\* Ready without the test on the incoming edges.
ReadyAnyChild(g, nix, seen) == Children(nix, g.edges)

\* The neighbours of nix whose incoming edges all come from ordered nodes.
Ready(g, nix, seen) ==
    {m \in Children(nix, g.edges) : Parents(m, g.edges) \subseteq seen}

(***************************************************************************)
(* The inputs drawn.                                                       *)
(***************************************************************************)
NumRules == Len(IntervalSeq) * Len(PrefSeq)
Codes == 0..(MaxUsers * NumRules - 1)
UserOf(c) == (c \div NumRules) + 1
RuleOf(c) ==
    Rule(IntervalSeq[((c % NumRules) \div Len(PrefSeq)) + 1],
         PrefSeq[(c % Len(PrefSeq)) + 1])

\* n availability entries in all, spread over the users.  The entries are
\* listed in one order only: generate collects them into a BTreeMap, so the
\* order of a user's Vec does not reach the result.  The map holds the users
\* that have an entry and the users of `idle`, whose availability is empty.
SortedCodes(n) == {cs \in [1..n -> Codes] : \A i \in 1..(n - 1) : cs[i] <= cs[i + 1]}
UserMapOf(cs, idle) ==
    [u \in {UserOf(cs[i]) : i \in 1..Len(cs)} \cup idle |->
        LET mine(c) == UserOf(c) = u
            sel == SelectSeq(cs, mine)
        IN  [i \in 1..Len(sel) |-> RuleOf(sel[i])]]
UserMaps(n, idle) == {UserMapOf(cs, idle) : cs \in SortedCodes(n)}
SlotLists(n) == [1..n -> Slots]
TaskMaps(ids) == UNION {[K -> SUBSET ids] : K \in SUBSET ids}
NoTasks == [t \in {} |-> {}]
NoUsers == [u \in {} |-> <<>>]

\* <<availability entries, slots>> of the inputs drawn for the scheduler.
InputSizes == {sz \in (0..3) \X (0..2) : sz[1] + sz[2] <= 4}

\* The domain store after construction: the statics SLOTS, TASKS and USERS
\* are LazyLock::new(Map::default) and every id counter is Atomic::new(0).
EmptyMap == [k \in {} |-> k]

StoreInit ==
    /\ SLOTS = EmptyMap
    /\ TASKS = EmptyMap
    /\ USERS = EmptyMap
    /\ NEXT_SLOT_ID = 0
    /\ NEXT_TASK_ID = 0
    /\ NEXT_USER_ID = 0
    /\ NEXT_RULE_ID = 0
    /\ call = [op |-> "none"]
    /\ ret = [none |-> TRUE]
    /\ handlers = EmptyMap

\* Slots and users with the empty task map (as scheduler_tests::test1).
InitStaff ==
    /\ tasks = NoTasks
    /\ \E sz \in InputSizes :
        /\ users \in UserMaps(sz[1], {})
        /\ slots \in SlotLists(sz[2])

\* Any task map over the task ids, dangling and cyclic deps included.
InitTasks ==
    /\ tasks \in TaskMaps(TaskIds)
    /\ users = NoUsers
    /\ slots = <<>>

\* A task map over two ids together with a slot and the users, one of
\* them with an availability entry.
InitMixed ==
    /\ tasks \in TaskMaps({1, 2}) \ {NoTasks}
    /\ users \in UserMaps(1, UserIds)
    /\ slots \in SlotLists(1)

Init ==
    /\ InitStaff \/ InitTasks \/ InitMixed
    /\ pc = "start"
    /\ graph = [none |-> TRUE]
    /\ tos = <<>>
    /\ ordered = {}
    /\ order = <<>>
    /\ result = [none |-> TRUE]
    /\ StoreInit
    /\ served = "none"

(***************************************************************************)
(* Operations.                                                             *)
(***************************************************************************)
\* dep_graph(&tasks), called on its own (as scheduler_tests::test0 does).
DepGraphStep ==
    /\ pc = "start"
    /\ graph' = DepGraph(tasks)
    /\ pc' = "graph"
    /\ UNCHANGED <<tasks, users, slots, tos, ordered, order, result>>
    /\ UNCHANGED storeVars

\* Schedule::generate(&slots, &tasks, &users).  `dep_graph(tasks)?` returns
\* dep_graph's error (a panic unwinds through generate); otherwise the slots
\* are mapped and collected under one iteration order of the user map.
GenerateResultStaffAll(g, ord) ==
    IF IsPanic(g) THEN [panic |-> TRUE]
    ELSE IF IsErr(g) THEN [err |-> g.err]
    ELSE LET collected == CollectSlots(users, ord, slots, 1) IN
         IF IsErr(collected) THEN collected
         ELSE [ok |-> [i \in 1..Len(collected.ok) |->
                    IF slots[i].min_staff = 0
                    THEN [collected.ok[i] EXCEPT
                            !.staff = Range(Candidates(users, ord, slots[i]))]
                    ELSE collected.ok[i]]]
GenerateResult(g, ord) ==
    IF IsPanic(g) THEN [panic |-> TRUE]
    ELSE IF IsErr(g) THEN [err |-> g.err]
    ELSE CollectSlots(users, ord, slots, 1)

Generate ==
    /\ pc = "start"
    /\ graph' = DepGraph(tasks)
    /\ \E ord \in Orderings(DOMAIN users) : result' = GenerateResult(graph', ord)
    /\ pc' = "done"
    /\ UNCHANGED <<tasks, users, slots, tos, ordered, order>>
    /\ UNCHANGED storeVars

\* dep_order(&graph): Topo::new(graph).
TopoNew ==
    /\ pc = "graph"
    /\ IsOk(graph)
    /\ tos' \in Orderings(Roots(graph.ok))
    /\ ordered' = {}
    /\ order' = <<>>
    /\ pc' = "topo"
    /\ UNCHANGED <<tasks, users, slots, graph, result>>
    /\ UNCHANGED storeVars

\* One Iterator::next of dep_order that yields a task.
TopoNext ==
    /\ pc = "topo"
    /\ LET stack == PopVisited(tos, ordered) IN
        /\ stack # <<>>
        /\ LET nix == stack[Len(stack)]
               seen == ordered \cup {nix}
           IN  /\ ordered' = seen
               /\ order' = Append(order, nix)
               /\ \E pushed \in Orderings(Ready(graph.ok, nix, seen)) :
                    tos' = SubSeq(stack, 1, Len(stack) - 1) \o pushed
    /\ UNCHANGED <<tasks, users, slots, pc, graph, result>>
    /\ UNCHANGED storeVars

\* The Iterator::next that finds the stack exhausted and returns None.
TopoEnd ==
    /\ pc = "topo"
    /\ PopVisited(tos, ordered) = <<>>
    /\ tos' = <<>>
    /\ pc' = "ordered"
    /\ UNCHANGED <<tasks, users, slots, graph, ordered, order, result>>
    /\ UNCHANGED storeVars

\* The scheduling engine.
Next == Generate

Spec == Init /\ [][Next]_vars

\* The dependency engine on its own: dep_graph, then dep_order.
InitDep ==
    /\ tasks \in TaskMaps(TaskIds)
    /\ users = NoUsers
    /\ slots = <<>>
    /\ pc = "start"
    /\ graph = [none |-> TRUE]
    /\ tos = <<>>
    /\ ordered = {}
    /\ order = <<>>
    /\ result = [none |-> TRUE]
    /\ StoreInit
    /\ served = "none"

NextDep == DepGraphStep \/ TopoNew \/ TopoNext \/ TopoEnd

SpecDep == InitDep /\ [][NextDep]_vars

(***************************************************************************)
(* Vocabulary of the properties, stated over the inputs and the returned   *)
(* values.                                                                 *)
(***************************************************************************)
\* The call to generate is over; it returned a schedule.
Finished == pc = "done"
ReturnedSchedule == pc = "done" /\ IsOk(result)

\* User u has an availability rule of preference p containing the interval.
HasRule(u, p, interval) ==
    \E j \in 1..Len(users[u]) : users[u][j].p = p /\ Contains(users[u][j].t, interval)

\* User u has a rule of preference > -inf containing the interval.
Available(u, interval) == \E p \in Prefs : p > NEG_INFINITY /\ HasRule(u, p, interval)
AvailableUsers(interval) == {u \in DOMAIN users : Available(u, interval)}

\* The greatest preference among u's rules > -inf that contain the interval.
BestPref(u, interval) ==
    MaxOf({p \in Prefs : p > NEG_INFINITY /\ HasRule(u, p, interval)})

\* Every dep is a key of the task map.
WellFormed(dict) == \A t \in DOMAIN dict : dict[t] \subseteq DOMAIN dict

\* The tasks that t depends on, directly or through other tasks.
RECURSIVE DepsClosure(_, _)
DepsClosure(dict, S) ==
    LET more == S \cup UNION {dict[t] : t \in S \cap DOMAIN dict}
    IN  IF more = S THEN S ELSE DepsClosure(dict, more)
HasCycle(dict) == \E t \in DOMAIN dict : t \in DepsClosure(dict, dict[t])

(***************************************************************************)
(* C1.  In every schedule generate returns, no user assigned to a slot has *)
(* an availability rule of preference -inf that contains the slot's        *)
(* interval.  The code admits a user as soon as one rule > -inf contains   *)
(* the slot, whatever its other rules say.                                 *)
(***************************************************************************)
C1_NoForbiddenUserAssigned ==
    ReturnedSchedule =>
        \A i \in 1..Len(result.ok) : \A u \in result.ok[i].staff :
            ~HasRule(u, NEG_INFINITY, result.ok[i].slot.interval)

(***************************************************************************)
(* C2.  A user with a rule of preference +inf containing a slot's interval *)
(* is assigned to that slot in every schedule generate returns.  The code  *)
(* never looks for such users (and never returns Illegal).                 *)
(***************************************************************************)
C2_MandatoryUserAssigned ==
    ReturnedSchedule =>
        \A i \in 1..Len(result.ok) : \A u \in DOMAIN users :
            HasRule(u, INFINITY, slots[i].interval) => u \in result.ok[i].staff

(***************************************************************************)
(* C3.  With acyclic, well-formed tasks generate fails with Understaffed   *)
(* if and only if some slot has min_staff = k and fewer than k users have  *)
(* a rule of preference > -inf containing the slot's interval.             *)
(***************************************************************************)
SomeSlotUnderstaffed ==
    \E i \in 1..Len(slots) :
        /\ slots[i].min_staff # 0
        /\ Cardinality(AvailableUsers(slots[i].interval)) < slots[i].min_staff

C3_UnderstaffedIff ==
    (Finished /\ WellFormed(tasks) /\ ~HasCycle(tasks)) =>
        (result = [err |-> Understaffed] <=> SomeSlotUnderstaffed)

\* A later slot is understaffed while the first one is staffed.
C3_Witness ==
    /\ Finished
    /\ result = [err |-> Understaffed]
    /\ Len(slots) = 2
    /\ Cardinality(AvailableUsers(slots[1].interval)) = slots[1].min_staff
    /\ slots[1].min_staff = 1

(***************************************************************************)
(* C4.  In every schedule generate returns, a slot with min_staff = k is   *)
(* assigned at least k users.  With more than k candidates the code keeps  *)
(* split_off(k), the candidates after the first k.                         *)
(***************************************************************************)
C4_MinStaffMet ==
    ReturnedSchedule =>
        \A i \in 1..Len(result.ok) :
            slots[i].min_staff # 0 =>
                Cardinality(result.ok[i].staff) >= slots[i].min_staff

(***************************************************************************)
(* C5.  When a slot with min_staff = k has more than k candidates, the     *)
(* users assigned are the k highest-ranked ones: no unassigned candidate   *)
(* has a strictly higher preference than an assigned one.                  *)
(***************************************************************************)
C5_TopRankedAssigned ==
    ReturnedSchedule =>
        \A i \in 1..Len(result.ok) :
            LET k == slots[i].min_staff
                cands == AvailableUsers(slots[i].interval)
                staff == result.ok[i].staff
            IN  (k # 0 /\ Cardinality(cands) > k) =>
                    /\ Cardinality(staff) = k
                    /\ \A a \in staff : \A c \in cands \ staff :
                        BestPref(c, slots[i].interval) <= BestPref(a, slots[i].interval)

(***************************************************************************)
(* C6.  Every user generate assigns to a slot has a rule of preference     *)
(* > -inf that contains the slot's interval.                               *)
(***************************************************************************)
C6_AssignedAreAvailable ==
    ReturnedSchedule =>
        \A i \in 1..Len(result.ok) :
            result.ok[i].staff \subseteq AvailableUsers(result.ok[i].slot.interval)

\* A slot is staffed while a user of the map, with rules of its own, is
\* left out because none of them qualifies.
C6_Witness ==
    /\ ReturnedSchedule
    /\ \E i \in 1..Len(result.ok) :
        /\ result.ok[i].staff # {}
        /\ \E u \in DOMAIN users :
            /\ users[u] # <<>>
            /\ ~Available(u, slots[i].interval)
            /\ u \notin result.ok[i].staff

(***************************************************************************)
(* C7.  generate either returns a schedule with exactly one entry per      *)
(* input slot, in input order, each carrying its slot unchanged, or        *)
(* returns a single error and no partial schedule.  On a task map with a   *)
(* dangling dep it returns neither: it panics (see C9).                    *)
(***************************************************************************)
C7_ScheduleOrError ==
    Finished =>
        \/ /\ IsOk(result)
           /\ Len(result.ok) = Len(slots)
           /\ \A i \in 1..Len(slots) : result.ok[i].slot = slots[i]
        \/ /\ IsErr(result)
           /\ DOMAIN result = {"err"}

(***************************************************************************)
(* C8.  For a task map whose deps all refer to existing tasks, dep_graph,  *)
(* and with it generate, fails with WouldCycle if and only if the deps     *)
(* relation has a cycle (a task depending on itself included); otherwise   *)
(* the graph is built.                                                     *)
(***************************************************************************)
C8_WouldCycleIff ==
    (Finished /\ WellFormed(tasks)) =>
        /\ (graph = [err |-> WouldCycle] /\ result = [err |-> WouldCycle])
              <=> HasCycle(tasks)
        /\ ~HasCycle(tasks) => IsOk(graph)

\* A task that depends on itself, scheduled with a slot.
C8_Witness ==
    /\ Finished
    /\ WellFormed(tasks)
    /\ \E t \in DOMAIN tasks : t \in tasks[t]
    /\ slots # <<>>
    /\ result = [err |-> WouldCycle]

(***************************************************************************)
(* C9.  When a task's deps holds an id that is not a key of the task map,  *)
(* building the dependency graph returns the error NonExistentTask(id).    *)
(* dep_graph indexes key_indices with the id and panics instead.           *)
(***************************************************************************)
C9_NonExistentTaskError ==
    (pc = "graph" /\ ~WellFormed(tasks)) =>
        \E t \in DOMAIN tasks : \E id \in tasks[t] \ DOMAIN tasks :
            graph = [err |-> NonExistentTask(id)]

(***************************************************************************)
(* C10.  For an acyclic, well-formed task map dep_order yields every task  *)
(* exactly once, each after all the tasks in its deps.                     *)
(***************************************************************************)
C10_TopologicalOrder ==
    /\ pc \in {"topo", "ordered"} =>
        /\ \A i, j \in 1..Len(order) : order[i] = order[j] => i = j
        /\ \A j \in 1..Len(order) :
            tasks[order[j]] \subseteq {order[i] : i \in 1..(j - 1)}
    /\ pc = "ordered" => Range(order) = DOMAIN tasks

\* The iteration is over and a task with two deps was yielded.
C10_Witness ==
    /\ pc = "ordered"
    /\ \E j \in 1..Len(order) : Cardinality(tasks[order[j]]) = 2

(***************************************************************************)
(* The domain store and its RPC handlers (src/src/srv/src/integration.rs). *)
(* The statics SLOTS, TASKS and USERS and the four id counters are the     *)
(* state; every handler is one action.  A handler that holds the write     *)
(* lock of its map for its whole body is atomic with respect to the other  *)
(* handlers of that map.                                                   *)
(***************************************************************************)
\* Bound: the number of ids a counter issues (0..MaxId-1) before the model
\* stops adding; a request may also name MaxId, an id never issued.
MaxId == 2

IssuedIds == 0..(MaxId - 1)
ReqIds == 0..MaxId

\* Option<T>: None is the empty set, Some(x) the singleton.
None == {}
Some(x) == {x}
Unwrap(o) == CHOOSE x \in o : TRUE
\* Option<String>::unwrap_or_default.
UnwrapOrDefault(o) == IF o = None THEN "" ELSE Unwrap(o)
\* (!s.is_empty()).then_some(s)
NonEmptyThenSome(s) == IF s = "" THEN None ELSE Some(s)

\* Sequences over S of length at most n.
SeqsUpTo(S, n) == UNION {[1..k -> S] : k \in 0..n}
\* Maps from at most n keys of K into V.
MapsUpTo(K, V, n) == UNION {[D -> V] : D \in {D \in SUBSET K : Cardinality(D) <= n}}

\* The results of a handler: Ok(v), Err(Fault::new(code, ..)), or a panic
\* that unwinds out of the handler.
Ok(v) == [ok |-> v]
Fault(code) == [fault |-> code]
Panicked == [panic |-> TRUE]

\* id_type!: fetch_add(n, Relaxed) leaves the counter at counter + n ...
FetchAddNoAdd(counter, n) == counter
FetchAdd(counter, n) == counter + n
\* ... and take(n) maps the range start..start+n, start the value fetched.
Take(start, n) == [i \in 1..n |-> start + i - 1]

\* HashMap::extend (and collect into a HashMap) with a sequence of
\* <<key, value>>: every entry is inserted in turn, so the last entry of a
\* key is the one that stays.
ExtendMap(target, entries) ==
    LET keys == {entries[i][1] : i \in 1..Len(entries)}
        last(k) == MaxOf({i \in 1..Len(entries) : entries[i][1] = k})
    IN  [k \in DOMAIN target \cup keys |->
            IF k \in keys THEN entries[last(k)][2] ELSE target[k]]

\* HashMap::retain with a delete set: the entries whose key is not in it.
Without(target, delete) == [k \in DOMAIN target \ delete |-> target[k]]

\* Update<T>::apply: Some replaces the target, None keeps it.
ApplyUpdateIgnored(update, target) == target
ApplyUpdate(update, target) == IF update = None THEN target ELSE Unwrap(update)

\* load_X: next_id = next_id.max(id + 1) over the rows read, from 0.
NextIdAfter(ids) == IF ids = {} THEN 0 ELSE MaxOf(ids) + 1

(***************************************************************************)
(* Slots.                                                                  *)
(***************************************************************************)
\* From<(SlotId, PySlot)> for Slot.
SlotFromKeepZero(id, slot) ==
    [id |-> id,
     interval |-> [start |-> slot.start, end |-> slot.end],
     min_staff |-> slot.min_staff,
     name |-> UnwrapOrDefault(slot.name)]
SlotFrom(id, slot) ==
    [id |-> id,
     interval |-> [start |-> slot.start, end |-> slot.end],
     min_staff |-> {n \in slot.min_staff : n # 0},
     name |-> UnwrapOrDefault(slot.name)]

\* From<Slot> for (SlotId, PySlot): the PySlot.
PySlotFrom(slot) ==
    [start |-> slot.interval.start,
     end |-> slot.interval.end,
     min_staff |-> slot.min_staff,
     name |-> NonEmptyThenSome(slot.name)]

\* The PySlot specs a client sends: start and end are two DateTime fields,
\* each any instant; min_staff None, 0 and 1; no name, the empty name and a
\* name.
PySlots ==
    {[start |-> se[1], end |-> se[2], min_staff |-> mn[1], name |-> mn[2]] :
        se \in {<<0, 0>>, <<0, 1>>, <<1, 0>>},
        mn \in {<<None, None>>, <<Some(0), Some("")>>, <<Some(1), Some("a")>>}}

\* The slots a data file holds.
FileSlots ==
    {[id |-> id, interval |-> [start |-> 0, end |-> 1], min_staff |-> m, name |-> "a"] :
        id \in IssuedIds, m \in {None, Some(1)}}

\* SlotFilter by ids: every other field is None ("do not filter").  A
\* Pattern is the set of strings it matches.
SlotFilters ==
    {[ids |-> ids, starting_after |-> None, starting_before |-> None,
      ending_after |-> None, ending_before |-> None,
      min_staff_min |-> None, min_staff_max |-> None, name_pat |-> None] :
        ids \in {None} \cup {Some(S) : S \in SUBSET ReqIds}}

\* slot.min_staff.map_or(0, NonZeroUsize::get)
MinStaffOrZero(slot) == IF slot.min_staff = None THEN 0 ELSE Unwrap(slot.min_staff)

\* The filter closure of get_slots (is_none_or: every value of the option).
SlotMatches(filter, slot) ==
    /\ \A x \in filter.starting_before : slot.interval.start <= x
    /\ \A x \in filter.starting_after : slot.interval.start >= x
    /\ \A x \in filter.ending_before : slot.interval.end <= x
    /\ \A x \in filter.ending_after : slot.interval.end >= x
    /\ \A x \in filter.min_staff_min : MinStaffOrZero(slot) >= x
    /\ \A x \in filter.min_staff_max : MinStaffOrZero(slot) <= x
    /\ \A x \in filter.ids : slot.id \in x
    /\ \A x \in filter.name_pat : slot.name \in x

\* get_slots over the map `store`.
GetSlots(store, filter) ==
    [id \in {k \in DOMAIN store : SlotMatches(filter, store[k])} |->
        PySlotFrom(store[id])]

\* SlotDelta: Update<TimeInterval>, Update<Option<NonZeroUsize>>,
\* Update<String>.
SlotDeltas ==
    {[interval |-> None, min_staff |-> None, name |-> None],
     [interval |-> Some([start |-> 1, end |-> 1]), min_staff |-> None, name |-> None],
     [interval |-> None, min_staff |-> Some(None), name |-> Some("b")],
     [interval |-> Some([start |-> 1, end |-> 1]), min_staff |-> Some(Some(1)),
      name |-> Some("")]}

SlotDeltaApply(delta, slot) ==
    [slot EXCEPT !.interval = ApplyUpdate(delta.interval, @),
                 !.min_staff = ApplyUpdate(delta.min_staff, @),
                 !.name = ApplyUpdate(delta.name, @)]

\* The server takes the requests for the kind it serves one at a time.
Serving(kind) == served = kind /\ call.op = "none"

\* What the handlers of one kind leave alone.
SlotFrame ==
    /\ UNCHANGED <<TASKS, USERS, NEXT_TASK_ID, NEXT_USER_ID, NEXT_RULE_ID, served, handlers>>
    /\ UNCHANGED algoVars

add_slots(to_add) ==
    /\ NEXT_SLOT_ID + Len(to_add) <= MaxId
    /\ LET ids == Take(NEXT_SLOT_ID, Len(to_add)) IN
        /\ NEXT_SLOT_ID' = FetchAdd(NEXT_SLOT_ID, Len(to_add))
        /\ SLOTS' = ExtendMap(SLOTS,
                [i \in 1..Len(to_add) |-> <<ids[i], SlotFrom(ids[i], to_add[i])>>])
        /\ ret' = Ok(ids)
    /\ call' = [op |-> "add_slots", arg |-> to_add]
    /\ SlotFrame

get_slots(filter) ==
    /\ ret' = Ok(GetSlots(SLOTS, filter))
    /\ call' = [op |-> "get_slots", arg |-> filter]
    /\ UNCHANGED <<SLOTS, NEXT_SLOT_ID>>
    /\ SlotFrame

mut_slots(delta) ==
    /\ SLOTS' = [id \in DOMAIN SLOTS |->
                    IF id \in DOMAIN delta THEN SlotDeltaApply(delta[id], SLOTS[id])
                    ELSE SLOTS[id]]
    /\ ret' = Ok(DOMAIN delta \ DOMAIN SLOTS)
    /\ call' = [op |-> "mut_slots", arg |-> delta]
    /\ UNCHANGED NEXT_SLOT_ID
    /\ SlotFrame

PopReturnsRemoved(target, to_pop) == to_pop \cap DOMAIN target
PopReturn(target, to_pop) == to_pop \ DOMAIN target

pop_slots(to_pop) ==
    /\ SLOTS' = Without(SLOTS, to_pop)
    /\ ret' = Ok(PopReturn(SLOTS, to_pop))
    /\ call' = [op |-> "pop_slots", arg |-> to_pop]
    /\ UNCHANGED NEXT_SLOT_ID
    /\ SlotFrame

\* load_slots(path) when the file reads as `rows`: the map is replaced by
\* the rows collected and the counter stored.
load_slots(rows) ==
    /\ SLOTS' = ExtendMap(EmptyMap, [i \in 1..Len(rows) |-> <<rows[i].id, rows[i]>>])
    /\ NEXT_SLOT_ID' = NextIdAfter({rows[i].id : i \in 1..Len(rows)})
    /\ ret' = Ok(<<>>)
    /\ call' = [op |-> "load_slots", arg |-> rows]
    /\ SlotFrame

\* load_slots(path) when the csv reader fails: `?` returns the Fault before
\* the map is assigned or the counter stored.
load_slots_err ==
    /\ ret' = Fault(500)
    /\ call' = [op |-> "load_slots", arg |-> "unreadable"]
    /\ UNCHANGED <<SLOTS, NEXT_SLOT_ID>>
    /\ SlotFrame

wipe_slots ==
    /\ SLOTS' = EmptyMap
    /\ NEXT_SLOT_ID' = 0
    /\ ret' = Ok(<<>>)
    /\ call' = [op |-> "wipe_slots", arg |-> <<>>]
    /\ SlotFrame

\* The requests drawn.
IdSets == SUBSET ReqIds
PySlotLists == SeqsUpTo(PySlots, MaxId)
SlotDeltaMaps == MapsUpTo(ReqIds, SlotDeltas, 2)
SlotFiles == SeqsUpTo(FileSlots, 2)

AddSlots == Serving("slot") /\ \E to_add \in PySlotLists : add_slots(to_add)
GetSlotsCall == Serving("slot") /\ \E filter \in SlotFilters : get_slots(filter)
MutSlots == Serving("slot") /\ \E delta \in SlotDeltaMaps : mut_slots(delta)
PopSlots == Serving("slot") /\ \E to_pop \in IdSets : pop_slots(to_pop)
LoadSlots == Serving("slot") /\ \E rows \in SlotFiles : load_slots(rows)
LoadSlotsErr == Serving("slot") /\ load_slots_err
WipeSlots == Serving("slot") /\ wipe_slots

(***************************************************************************)
(* Collection deltas.                                                      *)
(***************************************************************************)
\* KeySetDelta::apply: retain the keys `delete` does not hold, then extend
\* with `create`.
KeySetDeltaApply(self, target) == (target \ self.delete) \cup Range(self.create)

\* SetDelta::apply: retain drops the keys of `delete` and replaces the
\* value of a kept key that `update` holds; then extend with `create`.
SetDeltaApplyUpdateFirst(self, target) ==
    ExtendMap([k \in (DOMAIN target \cup DOMAIN self.update) \ self.delete |->
                  IF k \in DOMAIN self.update THEN self.update[k] ELSE target[k]],
              self.create)
SetDeltaApply(self, target) ==
    ExtendMap([k \in DOMAIN target \ self.delete |->
                  IF k \in DOMAIN self.update THEN self.update[k] ELSE target[k]],
              self.create)

\* Default for KeySetDelta and SetDelta.
NoKeySetDelta == [delete |-> {}, create |-> <<>>]
NoSetDelta == [delete |-> {}, create |-> <<>>, update |-> EmptyMap]

(***************************************************************************)
(* Tasks.                                                                  *)
(***************************************************************************)
\* A skill id and two proficiency requirements (data/task.rs).
Skill0 == [skill |-> 0]
ProficiencyReqOf(target) ==
    [target |-> target, soft_min |-> 0, soft_max |-> 2, hard_min |-> 0, hard_max |-> 2]

\* From<(TaskId, PyTask)> for Task.
TaskFrom(id, task) ==
    [id |-> id,
     title |-> task.title,
     desc |-> UnwrapOrDefault(task.desc),
     skills |-> EmptyMap,
     deadline |-> task.deadline,
     deps |-> IF task.awaiting = None THEN {} ELSE Unwrap(task.awaiting)]

\* From<&Task> for (TaskId, PyTask): the PyTask.
PyTaskFrom(task) ==
    [title |-> task.title,
     desc |-> NonEmptyThenSome(task.desc),
     deadline |-> task.deadline,
     awaiting |-> IF task.deps = {} THEN None ELSE Some(task.deps)]

\* The PyTask specs a client sends: no description, the empty one and a
\* description with a deadline; awaiting nothing, the empty set and task 1.
PyTasks ==
    {[title |-> "x", desc |-> dd[1], deadline |-> dd[2], awaiting |-> aw] :
        dd \in {<<None, None>>, <<Some(""), None>>, <<Some("d"), Some(1)>>},
        aw \in {None, Some({}), Some({1})}}

\* The tasks a data file holds.
FileTasks ==
    {[id |-> id, title |-> "x", desc |-> "", skills |-> EmptyMap, deadline |-> None,
      deps |-> deps] : id \in IssuedIds, deps \in {{}, {0}}}

\* TaskFilter by ids and deadline; a Pattern is the set of strings it
\* matches.
TaskFilters ==
    {[ids |-> ids, title_pat |-> None, desc_pat |-> None,
      deadline_after |-> None, deadline_before |-> db] :
        ids \in {None} \cup {Some(S) : S \in SUBSET ReqIds}, db \in {None, Some(1)}}

\* The filter closure of get_tasks.
TaskMatchesEmptyIdsAll(filter, task) ==
    /\ \A x \in filter.deadline_before : \E d \in task.deadline : d <= x
    /\ \A x \in filter.deadline_after : \A d \in task.deadline : d >= x
    /\ \A x \in filter.ids : x = {} \/ task.id \in x
    /\ \A x \in filter.title_pat : task.title \in x
    /\ \A x \in filter.desc_pat : task.desc \in x
TaskMatches(filter, task) ==
    /\ \A x \in filter.deadline_before : \E d \in task.deadline : d <= x
    /\ \A x \in filter.deadline_after : \A d \in task.deadline : d >= x
    /\ \A x \in filter.ids : task.id \in x
    /\ \A x \in filter.title_pat : task.title \in x
    /\ \A x \in filter.desc_pat : task.desc \in x

\* get_tasks over the map `store`.
GetTasks(store, filter) ==
    [id \in {k \in DOMAIN store : TaskMatches(filter, store[k])} |->
        PyTaskFrom(store[id])]

\* TaskDelta: nothing, a new title, and every other field at once.
TaskDeltas ==
    {[title |-> None, desc |-> None, skills |-> NoSetDelta, deadline |-> None,
      deps |-> NoKeySetDelta],
     [title |-> Some("y"), desc |-> None, skills |-> NoSetDelta, deadline |-> None,
      deps |-> NoKeySetDelta],
     [title |-> None, desc |-> Some("e"),
      skills |-> [delete |-> {}, create |-> <<<<Skill0, ProficiencyReqOf(1)>>>>,
                  update |-> EmptyMap],
      deadline |-> Some(None),
      deps |-> [delete |-> {1}, create |-> <<0>>]]}

TaskDeltaApply(delta, task) ==
    [task EXCEPT !.title = ApplyUpdate(delta.title, @),
                 !.desc = ApplyUpdate(delta.desc, @),
                 !.skills = SetDeltaApply(delta.skills, @),
                 !.deadline = ApplyUpdate(delta.deadline, @),
                 !.deps = KeySetDeltaApply(delta.deps, @)]

TaskFrame ==
    /\ UNCHANGED <<SLOTS, USERS, NEXT_SLOT_ID, NEXT_USER_ID, NEXT_RULE_ID, served, handlers>>
    /\ UNCHANGED algoVars

add_tasks(to_add) ==
    /\ NEXT_TASK_ID + Len(to_add) <= MaxId
    /\ LET ids == Take(NEXT_TASK_ID, Len(to_add)) IN
        /\ NEXT_TASK_ID' = FetchAdd(NEXT_TASK_ID, Len(to_add))
        /\ TASKS' = ExtendMap(TASKS,
                [i \in 1..Len(to_add) |-> <<ids[i], TaskFrom(ids[i], to_add[i])>>])
        /\ ret' = Ok(ids)
    /\ call' = [op |-> "add_tasks", arg |-> to_add]
    /\ TaskFrame

get_tasks(filter) ==
    /\ ret' = Ok(GetTasks(TASKS, filter))
    /\ call' = [op |-> "get_tasks", arg |-> filter]
    /\ UNCHANGED <<TASKS, NEXT_TASK_ID>>
    /\ TaskFrame

mut_tasks(delta) ==
    /\ TASKS' = [id \in DOMAIN TASKS |->
                    IF id \in DOMAIN delta THEN TaskDeltaApply(delta[id], TASKS[id])
                    ELSE TASKS[id]]
    /\ ret' = Ok(DOMAIN delta \ DOMAIN TASKS)
    /\ call' = [op |-> "mut_tasks", arg |-> delta]
    /\ UNCHANGED NEXT_TASK_ID
    /\ TaskFrame

pop_tasks(to_pop) ==
    /\ TASKS' = Without(TASKS, to_pop)
    /\ ret' = Ok(PopReturn(TASKS, to_pop))
    /\ call' = [op |-> "pop_tasks", arg |-> to_pop]
    /\ UNCHANGED NEXT_TASK_ID
    /\ TaskFrame

load_tasks(rows) ==
    /\ TASKS' = ExtendMap(EmptyMap, [i \in 1..Len(rows) |-> <<rows[i].id, rows[i]>>])
    /\ NEXT_TASK_ID' = NextIdAfter({rows[i].id : i \in 1..Len(rows)})
    /\ ret' = Ok(<<>>)
    /\ call' = [op |-> "load_tasks", arg |-> rows]
    /\ TaskFrame

load_tasks_err ==
    /\ ret' = Fault(500)
    /\ call' = [op |-> "load_tasks", arg |-> "unreadable"]
    /\ UNCHANGED <<TASKS, NEXT_TASK_ID>>
    /\ TaskFrame

wipe_tasks ==
    /\ TASKS' = EmptyMap
    /\ NEXT_TASK_ID' = 0
    /\ ret' = Ok(<<>>)
    /\ call' = [op |-> "wipe_tasks", arg |-> <<>>]
    /\ TaskFrame

PyTaskLists == SeqsUpTo(PyTasks, MaxId)
TaskDeltaMaps == MapsUpTo(ReqIds, TaskDeltas, 2)
TaskFiles == SeqsUpTo(FileTasks, 2)

AddTasks == Serving("task") /\ \E to_add \in PyTaskLists : add_tasks(to_add)
GetTasksCall == Serving("task") /\ \E filter \in TaskFilters : get_tasks(filter)
MutTasks == Serving("task") /\ \E delta \in TaskDeltaMaps : mut_tasks(delta)
PopTasks == Serving("task") /\ \E to_pop \in IdSets : pop_tasks(to_pop)
LoadTasks == Serving("task") /\ \E rows \in TaskFiles : load_tasks(rows)
LoadTasksErr == Serving("task") /\ load_tasks_err
WipeTasks == Serving("task") /\ wipe_tasks

(***************************************************************************)
(* Users and their availability rules.                                     *)
(***************************************************************************)
\* From<PyFreq> for Frequency and From<PyRep> for Repetition.
FrequencyFrom(value) == [f \in DOMAIN value |-> IF value[f] = None THEN 0 ELSE Unwrap(value[f])]
RepetitionFrom(value) ==
    [every |-> FrequencyFrom(value.every), start |-> value.start, until |-> value.until]

\* From<(RuleId, PyRule)> for Rule.
RuleFrom(id, value) ==
    [id |-> id,
     include |-> value.include,
     rep |-> {RepetitionFrom(r) : r \in value.repeat},
     pref |-> value.preference]

\* From<Frequency> for PyFreq, From<Repetition> for PyRep and
\* From<&Rule> for (RuleId, PyRule): the PyRule.
PyFreqFrom(value) == [f \in DOMAIN value |-> IF value[f] # 0 THEN Some(value[f]) ELSE None]
PyRepFrom(value) ==
    [every |-> PyFreqFrom(value.every), start |-> value.start, until |-> value.until]
PyRuleFrom(rule) ==
    [include |-> rule.include,
     repeat |-> {PyRepFrom(r) : r \in rule.rep},
     preference |-> rule.pref]

\* From<(UserId, PyUser)> for User.
UserFrom(id, user) ==
    [id |-> id, name |-> user.name, availability |-> EmptyMap,
     user_prefs |-> EmptyMap, skills |-> EmptyMap]

\* From<&User> for (UserId, PyUser): the PyUser.
PyUserFrom(user) == [name |-> user.name]

PyUsers == {[name |-> "n"], [name |-> "m"]}

\* A one-off rule over the interval [0, 1].
PyRules == {[include |-> <<IntervalSeq[2]>>, repeat |-> None, preference |-> MAX]}

\* The users a data file holds: without rules, or with rule 0 or rule 1.
FileUsers ==
    {[id |-> id, name |-> "n", availability |-> av, user_prefs |-> EmptyMap,
      skills |-> EmptyMap] :
        id \in IssuedIds,
        av \in {EmptyMap} \cup
               {[k \in {r} |-> RuleFrom(r, [include |-> <<IntervalSeq[2]>>, repeat |-> None,
                                            preference |-> MAX])] : r \in {0, 1}}}

\* UserFilter: ids is a Vec here.
UserFilters ==
    {[ids |-> ids, name_pat |-> None] :
        ids \in {None} \cup {Some(v) : v \in SeqsUpTo(ReqIds, 1)}}

UserMatches(filter, user) ==
    /\ \A x \in filter.ids : user.id \in Range(x)
    /\ \A x \in filter.name_pat : user.name \in x

\* get_users over the map `store`.
GetUsers(store, filter) ==
    [id \in {k \in DOMAIN store : UserMatches(filter, store[k])} |->
        PyUserFrom(store[id])]

\* add_rules, one entry of to_add: a user that exists takes Len(rules) rule
\* ids and its availability is extended; any other entry is filtered out.
AddRulesEntry(acc, user_id, rules) ==
    IF user_id \notin DOMAIN acc.users THEN acc
    ELSE LET ids == Take(acc.next, Len(rules)) IN
         [users |-> [acc.users EXCEPT ![user_id].availability =
                        ExtendMap(@, [i \in 1..Len(rules) |->
                                        <<ids[i], RuleFrom(ids[i], rules[i])>>])],
          next |-> FetchAdd(acc.next, Len(rules)),
          result |-> ExtendMap(acc.result, <<<<user_id, ids>>>>)]

\* The entries of to_add in the order `ord` its iterator yields them.
RECURSIVE AddRulesFold(_, _, _)
AddRulesFold(to_add, ord, acc) ==
    IF ord = <<>> THEN acc
    ELSE AddRulesFold(to_add, Tail(ord), AddRulesEntry(acc, Head(ord), to_add[Head(ord)]))

\* The include delta of a RuleDelta as mut_users applies it: retain walks
\* the intervals counting from 0, dropping the deleted indices and replacing
\* the updated ones, then the created intervals are appended.
RECURSIVE IncludeRetain(_, _, _)
IncludeRetain(delta, include, i) ==
    IF i > Len(include) THEN <<>>
    ELSE (IF (i - 1) \in delta.delete THEN <<>>
          ELSE IF (i - 1) \in DOMAIN delta.update THEN <<delta.update[i - 1]>>
          ELSE <<include[i]>>) \o IncludeRetain(delta, include, i + 1)

RuleDeltaApply(delta, rule) ==
    [rule EXCEPT !.include = IncludeRetain(delta.include, @, 1) \o delta.include.create,
                 !.rep = ApplyUpdate(delta.rep, @),
                 !.pref = ApplyUpdate(delta.pref, @)]

\* The availability delta (a NoGrowSetDelta of RuleDeltas) as mut_users
\* applies it.
AvailabilityApply(delta, availability) ==
    [k \in DOMAIN availability \ delta.delete |->
        IF k \in DOMAIN delta.update THEN RuleDeltaApply(delta.update[k], availability[k])
        ELSE availability[k]]

UserDeltaApply(delta, user) ==
    [user EXCEPT !.name = ApplyUpdate(delta.name, @),
                 !.availability = AvailabilityApply(delta.availability, @),
                 !.user_prefs = SetDeltaApply(delta.user_prefs, @),
                 !.skills = SetDeltaApply(delta.skills, @)]

NoAvailabilityDelta == [delete |-> {}, update |-> EmptyMap]

\* UserDelta: nothing, a new name, and a delta that deletes rule 1 and
\* rewrites rule 0.
UserDeltas ==
    {[name |-> None, availability |-> NoAvailabilityDelta, user_prefs |-> NoSetDelta,
      skills |-> NoSetDelta],
     [name |-> Some("m"), availability |-> NoAvailabilityDelta, user_prefs |-> NoSetDelta,
      skills |-> NoSetDelta],
     [name |-> None,
      availability |->
        [delete |-> {1},
         update |-> [k \in {0} |->
            [include |-> [delete |-> {0}, create |-> <<IntervalSeq[3]>>, update |-> EmptyMap],
             rep |-> None,
             pref |-> Some(MIN)]]],
      user_prefs |-> NoSetDelta,
      skills |-> NoSetDelta]}

UserFrame ==
    /\ UNCHANGED <<SLOTS, TASKS, NEXT_SLOT_ID, NEXT_TASK_ID, served, handlers>>
    /\ UNCHANGED algoVars

add_users(to_add) ==
    /\ NEXT_USER_ID + Len(to_add) <= MaxId
    /\ LET ids == Take(NEXT_USER_ID, Len(to_add)) IN
        /\ NEXT_USER_ID' = FetchAdd(NEXT_USER_ID, Len(to_add))
        /\ USERS' = ExtendMap(USERS,
                [i \in 1..Len(to_add) |-> <<ids[i], UserFrom(ids[i], to_add[i])>>])
        /\ ret' = Ok(ids)
    /\ call' = [op |-> "add_users", arg |-> to_add]
    /\ UNCHANGED NEXT_RULE_ID
    /\ UserFrame

\* add_rules(to_add), the map's iterator yielding its entries in the order
\* `ord`.
add_rules(to_add, ord) ==
    LET out == AddRulesFold(to_add, ord,
                    [users |-> USERS, next |-> NEXT_RULE_ID, result |-> EmptyMap])
    IN  /\ out.next <= MaxId
        /\ USERS' = out.users
        /\ NEXT_RULE_ID' = out.next
        /\ ret' = Ok(out.result)
        /\ call' = [op |-> "add_rules", arg |-> to_add]
        /\ UNCHANGED NEXT_USER_ID
        /\ UserFrame

\* get_rules: flat_map over the filter map keeps the entries whose user the
\* map holds; each yields the user's rules that pass the three tests,
\* converted and collected under their ids.
RulePasses(filter, rule) ==
    /\ \A x \in filter.min_pref : rule.pref >= x
    /\ \A x \in filter.max_pref : rule.pref <= x
    /\ \A x \in filter.ids : rule.id \in x
GetRulesAllRequested(store, filter) ==
    [user_id \in DOMAIN filter |->
        IF user_id \notin DOMAIN store THEN EmptyMap
        ELSE LET availability == store[user_id].availability
                 passing == {k \in DOMAIN availability :
                                RulePasses(filter[user_id], availability[k])}
             IN  [k \in {availability[j].id : j \in passing} |->
                    PyRuleFrom(availability[CHOOSE j \in passing :
                                                availability[j].id = k])]]
GetRules(store, filter) ==
    [user_id \in DOMAIN filter \cap DOMAIN store |->
        LET availability == store[user_id].availability
            passing == {k \in DOMAIN availability :
                            RulePasses(filter[user_id], availability[k])}
        IN  [k \in {availability[j].id : j \in passing} |->
                PyRuleFrom(availability[CHOOSE j \in passing : availability[j].id = k])]]

get_rules(filter) ==
    /\ ret' = Ok(GetRules(USERS, filter))
    /\ call' = [op |-> "get_rules", arg |-> filter]
    /\ UNCHANGED <<USERS, NEXT_USER_ID, NEXT_RULE_ID>>
    /\ UserFrame

get_users(filter) ==
    /\ ret' = Ok(GetUsers(USERS, filter))
    /\ call' = [op |-> "get_users", arg |-> filter]
    /\ UNCHANGED <<USERS, NEXT_USER_ID, NEXT_RULE_ID>>
    /\ UserFrame

\* mut_users(delta): the closure ends in todo!(), so the first entry the
\* map's iterator yields is applied to its user (when it exists) and the
\* handler panics; the write guard is released by the unwinding
\* (parking_lot locks do not poison).  An empty delta never enters the
\* closure.
mut_users(delta) ==
    /\ IF delta = EmptyMap
       THEN /\ USERS' = USERS
            /\ ret' = Ok(EmptyMap)
       ELSE \E user_id \in DOMAIN delta :
            /\ USERS' = IF user_id \in DOMAIN USERS
                        THEN [USERS EXCEPT ![user_id] = UserDeltaApply(delta[user_id], @)]
                        ELSE USERS
            /\ ret' = Panicked
    /\ call' = [op |-> "mut_users", arg |-> delta]
    /\ UNCHANGED <<NEXT_USER_ID, NEXT_RULE_ID>>
    /\ UserFrame

pop_users(to_pop) ==
    /\ USERS' = Without(USERS, to_pop)
    /\ ret' = Ok(PopReturn(USERS, to_pop))
    /\ call' = [op |-> "pop_users", arg |-> to_pop]
    /\ UNCHANGED <<NEXT_USER_ID, NEXT_RULE_ID>>
    /\ UserFrame

\* load_users: rule_id is the largest rule id read (max.max(rule_id), from
\* 0), stored as it is.
MaxRuleIdOf(rows) ==
    LET keys == UNION {DOMAIN rows[i].availability : i \in 1..Len(rows)}
    IN  IF keys = {} THEN 0 ELSE MaxOf(keys)

load_users(rows) ==
    /\ USERS' = ExtendMap(EmptyMap, [i \in 1..Len(rows) |-> <<rows[i].id, rows[i]>>])
    /\ NEXT_USER_ID' = NextIdAfter({rows[i].id : i \in 1..Len(rows)})
    /\ NEXT_RULE_ID' = MaxRuleIdOf(rows)
    /\ ret' = Ok(<<>>)
    /\ call' = [op |-> "load_users", arg |-> rows]
    /\ UserFrame

load_users_err ==
    /\ ret' = Fault(500)
    /\ call' = [op |-> "load_users", arg |-> "unreadable"]
    /\ UNCHANGED <<USERS, NEXT_USER_ID, NEXT_RULE_ID>>
    /\ UserFrame

wipe_users_keeps_rule_counter ==
    /\ USERS' = EmptyMap
    /\ NEXT_USER_ID' = 0
    /\ UNCHANGED NEXT_RULE_ID
    /\ ret' = Ok(<<>>)
    /\ call' = [op |-> "wipe_users", arg |-> <<>>]
    /\ UserFrame
wipe_users ==
    /\ USERS' = EmptyMap
    /\ NEXT_USER_ID' = 0
    /\ NEXT_RULE_ID' = 0
    /\ ret' = Ok(<<>>)
    /\ call' = [op |-> "wipe_users", arg |-> <<>>]
    /\ UserFrame

PyUserLists == SeqsUpTo(PyUsers, MaxId)
PyRuleMaps == MapsUpTo(ReqIds, SeqsUpTo(PyRules, 2), 2)
UserDeltaMaps == MapsUpTo(ReqIds, UserDeltas, 2)
UserFiles == SeqsUpTo(FileUsers, 2)

\* The requests of a run that works on the users' preferences towards each
\* other ("team"): users are added and removed, and a UserDelta records or
\* drops a preference towards user 1.
TeamUserLists == SeqsUpTo({[name |-> "n"]}, MaxId)
TeamDeltas ==
    {[name |-> None, availability |-> NoAvailabilityDelta, skills |-> NoSetDelta,
      user_prefs |-> up] :
        up \in {[delete |-> {}, create |-> << <<1, MAX>> >>, update |-> EmptyMap],
                [delete |-> {1}, create |-> <<>>, update |-> EmptyMap]}}
TeamDeltaMaps == MapsUpTo(ReqIds, TeamDeltas, 1)

\* The requests of a run that works on availability rules ("rule"): rules
\* with an empty and with a one-interval include list, a UserDelta that
\* deletes the first interval of rule 0, and RuleFilters by id and by
\* least preference.
RulePyRules ==
    {[include |-> <<>>, repeat |-> None, preference |-> MAX],
     [include |-> <<IntervalSeq[2]>>, repeat |-> None, preference |-> MIN]}
RulePyRuleMaps == MapsUpTo(ReqIds, SeqsUpTo(RulePyRules, 1), 1)
RuleDeltas ==
    {[name |-> None, user_prefs |-> NoSetDelta, skills |-> NoSetDelta,
      availability |->
        [delete |-> {},
         update |-> [k \in {0} |->
            [include |-> [delete |-> {0}, create |-> <<>>, update |-> EmptyMap],
             rep |-> None,
             pref |-> None]]]]}
RuleDeltaMaps == MapsUpTo(ReqIds, RuleDeltas, 1)
RuleFilters ==
    {[ids |-> ids, min_pref |-> mn, max_pref |-> None] :
        ids \in {None, Some({0})}, mn \in {None, Some(MAX)}}
RuleFilterMaps == MapsUpTo(ReqIds, RuleFilters, 2)

\* The requests each kind of run sends to the handlers of the user map.
UserKinds == {"user", "team", "rule"}
PyUserListsOf == ("user" :> PyUserLists @@ "team" :> TeamUserLists @@ "rule" :> TeamUserLists)
PyRuleMapsOf == ("user" :> PyRuleMaps @@ "team" :> {} @@ "rule" :> RulePyRuleMaps)
UserDeltaMapsOf ==
    ("user" :> UserDeltaMaps @@ "team" :> TeamDeltaMaps @@ "rule" :> RuleDeltaMaps)

AddUsers ==
    \E kind \in UserKinds :
        Serving(kind) /\ \E to_add \in PyUserListsOf[kind] : add_users(to_add)
AddRules ==
    \E kind \in UserKinds :
        Serving(kind) /\ \E to_add \in PyRuleMapsOf[kind] :
            \E ord \in Orderings(DOMAIN to_add) : add_rules(to_add, ord)
GetRulesCall == Serving("rule") /\ \E filter \in RuleFilterMaps : get_rules(filter)
GetUsersCall == Serving("user") /\ \E filter \in UserFilters : get_users(filter)
MutUsers ==
    \E kind \in UserKinds :
        Serving(kind) /\ \E delta \in UserDeltaMapsOf[kind] : mut_users(delta)
PopUsers ==
    \E kind \in UserKinds : Serving(kind) /\ \E to_pop \in IdSets : pop_users(to_pop)
LoadUsers == Serving("user") /\ \E rows \in UserFiles : load_users(rows)
LoadUsersErr == Serving("user") /\ load_users_err
WipeUsers == Serving("user") /\ wipe_users

\* The handler's result goes back to the client (register_simple) and the
\* server waits for the next request.
Respond ==
    /\ call.op # "none"
    /\ call' = [op |-> "none"]
    /\ ret' = [none |-> TRUE]
    /\ UNCHANGED <<SLOTS, TASKS, USERS, NEXT_SLOT_ID, NEXT_TASK_ID, NEXT_USER_ID,
                   NEXT_RULE_ID, served, handlers>>
    /\ UNCHANGED algoVars

Kinds == {"slot", "task", "user", "team", "rule"}

InitStore ==
    /\ StoreInit
    /\ served \in Kinds
    /\ tasks = NoTasks
    /\ users = NoUsers
    /\ slots = <<>>
    /\ pc = "start"
    /\ graph = [none |-> TRUE]
    /\ tos = <<>>
    /\ ordered = {}
    /\ order = <<>>
    /\ result = [none |-> TRUE]

NextStore ==
    \/ AddSlots \/ GetSlotsCall \/ MutSlots \/ PopSlots
    \/ LoadSlots \/ LoadSlotsErr \/ WipeSlots
    \/ AddTasks \/ GetTasksCall \/ MutTasks \/ PopTasks
    \/ LoadTasks \/ LoadTasksErr \/ WipeTasks
    \/ AddUsers \/ AddRules \/ GetRulesCall \/ GetUsersCall \/ MutUsers \/ PopUsers
    \/ LoadUsers \/ LoadUsersErr \/ WipeUsers
    \/ Respond

SpecStore == InitStore /\ [][NextStore]_vars

(***************************************************************************)
(* add_tasks handlers running concurrently (the server serves requests on  *)
(* several threads).  A handler takes its ids with one atomic fetch_add,   *)
(* then extends the map under the write lock, then returns the ids.        *)
(***************************************************************************)
\* Bound: the number of add_tasks requests in flight.
MaxHandlers == 2

HandlerIds == 1..MaxHandlers

\* The lists the concurrent requests carry.
ConcTaskLists ==
    SeqsUpTo({[title |-> t, desc |-> None, deadline |-> None, awaiting |-> None] :
                t \in {"x", "y"}}, 2)

InitConc ==
    /\ SLOTS = EmptyMap
    /\ TASKS = EmptyMap
    /\ USERS = EmptyMap
    /\ NEXT_SLOT_ID = 0
    /\ NEXT_TASK_ID = 0
    /\ NEXT_USER_ID = 0
    /\ NEXT_RULE_ID = 0
    /\ served = "task"
    /\ call = [op |-> "none"]
    /\ ret = [none |-> TRUE]
    /\ handlers \in [HandlerIds -> {[pc |-> "start", to_add |-> l, ids |-> <<>>,
                                     ret |-> [none |-> TRUE]] : l \in ConcTaskLists}]
    /\ tasks = NoTasks
    /\ users = NoUsers
    /\ slots = <<>>
    /\ pc = "start"
    /\ graph = [none |-> TRUE]
    /\ tos = <<>>
    /\ ordered = {}
    /\ order = <<>>
    /\ result = [none |-> TRUE]

ConcFrame ==
    /\ UNCHANGED <<SLOTS, USERS, NEXT_SLOT_ID, NEXT_USER_ID, NEXT_RULE_ID, served, call, ret>>
    /\ UNCHANGED algoVars

\* let ids = TaskId::take(to_add.len()): one fetch_add on NEXT_TASK_ID.
TakeIds(h) ==
    /\ handlers[h].pc = "start"
    /\ LET n == Len(handlers[h].to_add) IN
        /\ NEXT_TASK_ID' = FetchAdd(NEXT_TASK_ID, n)
        /\ handlers' = [handlers EXCEPT ![h].pc = "taken",
                                        ![h].ids = Take(NEXT_TASK_ID, n)]
    /\ UNCHANGED TASKS
    /\ ConcFrame

\* TASKS.write().extend(ids.clone().zip(to_add).map(Task::from)...).
ExtendTasks(h) ==
    /\ handlers[h].pc = "taken"
    /\ LET ids == handlers[h].ids
           to_add == handlers[h].to_add
       IN  TASKS' = ExtendMap(TASKS,
                [i \in 1..Len(to_add) |-> <<ids[i], TaskFrom(ids[i], to_add[i])>>])
    /\ handlers' = [handlers EXCEPT ![h].pc = "extended"]
    /\ UNCHANGED NEXT_TASK_ID
    /\ ConcFrame

\* Ok(ids.collect())
ReturnIds(h) ==
    /\ handlers[h].pc = "extended"
    /\ handlers' = [handlers EXCEPT ![h].pc = "returned", ![h].ret = Ok(handlers[h].ids)]
    /\ UNCHANGED <<TASKS, NEXT_TASK_ID>>
    /\ ConcFrame

ConcTake == \E h \in HandlerIds : TakeIds(h)
ConcExtend == \E h \in HandlerIds : ExtendTasks(h)
ConcReturn == \E h \in HandlerIds : ReturnIds(h)

NextConc == ConcTake \/ ConcExtend \/ ConcReturn

SpecConc == InitConc /\ [][NextConc]_vars

(***************************************************************************)
(* Vocabulary of the store properties.                                     *)
(***************************************************************************)
\* The filters that select by ids alone.
SlotsByIds(S) ==
    [ids |-> Some(S), starting_after |-> None, starting_before |-> None,
     ending_after |-> None, ending_before |-> None,
     min_staff_min |-> None, min_staff_max |-> None, name_pat |-> None]
TasksByIds(S) ==
    [ids |-> Some(S), title_pat |-> None, desc_pat |-> None,
     deadline_after |-> None, deadline_before |-> None]
UsersByIds(v) == [ids |-> Some(v), name_pat |-> None]

\* This step is the handler `op` serving a request.
Serves(op) == call.op = "none" /\ call'.op = op

\* One id per spec, in counter order, none of them in the map before and
\* none repeated.
NewIdsInOrder(ids, specs, before) ==
    /\ Len(ids) = Len(specs)
    /\ \A i \in 1..Len(ids) : ids[i] \notin DOMAIN before
    /\ \A i, j \in 1..Len(ids) : i < j => ids[i] < ids[j]

\* The spec as the documented signatures say it reads back: a min_staff of
\* 0, an empty name or desc and an empty awaiting set are None.
ReadBackSlot(spec) == [spec EXCEPT !.min_staff = @ \ {0}, !.name = @ \ {""}]
ReadBackTask(spec) == [spec EXCEPT !.desc = @ \ {""}, !.awaiting = @ \ {{}}]

\* `got`, the records a get by `ids` returns, are exactly the `specs`.
GotExactly(got, ids, specs) ==
    /\ DOMAIN got = Range(ids)
    /\ Cardinality(DOMAIN got) = Len(specs)
    /\ \A i \in 1..Len(ids) : got[ids[i]] = specs[i]

(***************************************************************************)
(* C11.  add_slots, add_tasks and add_users never fail and return one new  *)
(* id per spec in the order provided, and a following get_X restricted to  *)
(* those ids returns exactly |specs| records whose public fields equal the *)
(* input specs.  As stated, the fields read back equal to the input: the   *)
(* code reads a min_staff of 0, an empty name, an empty desc and an empty  *)
(* awaiting set back as None.                                              *)
(***************************************************************************)
C11_AddThenGetEqualsInput ==
    [][/\ Serves("add_slots") =>
            /\ IsOk(ret')
            /\ NewIdsInOrder(ret'.ok, call'.arg, SLOTS)
            /\ GotExactly(GetSlots(SLOTS', SlotsByIds(Range(ret'.ok))), ret'.ok, call'.arg)
       /\ Serves("add_tasks") =>
            /\ IsOk(ret')
            /\ NewIdsInOrder(ret'.ok, call'.arg, TASKS)
            /\ GotExactly(GetTasks(TASKS', TasksByIds(Range(ret'.ok))), ret'.ok, call'.arg)
       /\ Serves("add_users") =>
            /\ IsOk(ret')
            /\ NewIdsInOrder(ret'.ok, call'.arg, USERS)
            /\ GotExactly(GetUsers(USERS', UsersByIds(ret'.ok)), ret'.ok, call'.arg)]_vars

\* C11, amended: the records read back equal the input specs with a
\* min_staff of 0, an empty name, an empty desc and an empty awaiting set
\* read back as None.
C11_AddThenGetRoundTrip ==
    [][/\ Serves("add_slots") =>
            /\ IsOk(ret')
            /\ NewIdsInOrder(ret'.ok, call'.arg, SLOTS)
            /\ GotExactly(GetSlots(SLOTS', SlotsByIds(Range(ret'.ok))), ret'.ok,
                          [i \in 1..Len(call'.arg) |-> ReadBackSlot(call'.arg[i])])
       /\ Serves("add_tasks") =>
            /\ IsOk(ret')
            /\ NewIdsInOrder(ret'.ok, call'.arg, TASKS)
            /\ GotExactly(GetTasks(TASKS', TasksByIds(Range(ret'.ok))), ret'.ok,
                          [i \in 1..Len(call'.arg) |-> ReadBackTask(call'.arg[i])])
       /\ Serves("add_users") =>
            /\ IsOk(ret')
            /\ NewIdsInOrder(ret'.ok, call'.arg, USERS)
            /\ GotExactly(GetUsers(USERS', UsersByIds(ret'.ok)), ret'.ok, call'.arg)]_vars

\* add_slots of two specs, the first with min_staff 0 and an empty name,
\* has returned their ids.
C11_Witness ==
    /\ call.op = "add_slots"
    /\ Len(call.arg) = 2
    /\ call.arg[1].min_staff = Some(0)
    /\ call.arg[2].min_staff = Some(1)
    /\ ret = Ok(<<0, 1>>)
    /\ DOMAIN SLOTS = {0, 1}

(***************************************************************************)
(* C12.  Under any interleaving of concurrently running add_tasks          *)
(* handlers, the id lists they return are pairwise disjoint and no list    *)
(* repeats an id.                                                          *)
(***************************************************************************)
C12_ReturnedIdsDisjoint ==
    \A h1, h2 \in HandlerIds :
        (handlers[h1].pc = "returned" /\ handlers[h2].pc = "returned") =>
            LET ids1 == handlers[h1].ret.ok
                ids2 == handlers[h2].ret.ok
            IN  /\ h1 # h2 => Range(ids1) \cap Range(ids2) = {}
                /\ \A i, j \in 1..Len(ids1) : i # j => ids1[i] # ids1[j]

\* Two handlers have returned two ids each; the second took its ids first
\* and every task is in the map.
C12_Witness ==
    /\ handlers[1].pc = "returned"
    /\ handlers[2].pc = "returned"
    /\ handlers[2].ret = Ok(<<0, 1>>)
    /\ handlers[1].ret = Ok(<<2, 3>>)
    /\ DOMAIN TASKS = {0, 1, 2, 3}

(***************************************************************************)
(* C13.  The id counter of each entity kind never decreases over any       *)
(* sequence of add_X, mut_X, pop_X and load_X; it is lowered only by       *)
(* wipe_X.  load_X stores the counter computed from the rows read,         *)
(* whatever the counter was.                                               *)
(***************************************************************************)
C13_CountersLoweredOnlyByWipe ==
    [][call'.op \notin {"wipe_slots", "wipe_tasks", "wipe_users"} =>
            /\ NEXT_SLOT_ID' >= NEXT_SLOT_ID
            /\ NEXT_TASK_ID' >= NEXT_TASK_ID
            /\ NEXT_USER_ID' >= NEXT_USER_ID
            /\ NEXT_RULE_ID' >= NEXT_RULE_ID]_vars

\* The ids of the rules the users of `store` hold.
RuleIdsOf(store) == UNION {DOMAIN store[u].availability : u \in DOMAIN store}

\* After a load of `rows`, `store` holds the entities read under their ids
\* and `counter` is one past the largest of them (0 when there is none).
LoadedExactly(store, counter, rows) ==
    /\ DOMAIN store = {rows[i].id : i \in 1..Len(rows)}
    /\ \A k \in DOMAIN store : store[k] \in Range(rows) /\ store[k].id = k
    /\ \A k \in DOMAIN store : k < counter
    /\ counter = 0 \/ (counter - 1) \in DOMAIN store

(***************************************************************************)
(* C14.  After load_X succeeds the map holds exactly the loaded entities   *)
(* and the id counter of every kind loaded (slot, task, user, and the rule *)
(* counter after load_users) is one past the largest id read, so the next  *)
(* add issues an id no loaded entity has.  load_users stores the largest   *)
(* rule id itself.                                                         *)
(***************************************************************************)
C14_LoadSetsCountersPastMax ==
    /\ (call.op = "load_slots" /\ IsOk(ret)) =>
            LoadedExactly(SLOTS, NEXT_SLOT_ID, call.arg)
    /\ (call.op = "load_tasks" /\ IsOk(ret)) =>
            LoadedExactly(TASKS, NEXT_TASK_ID, call.arg)
    /\ (call.op = "load_users" /\ IsOk(ret)) =>
            /\ LoadedExactly(USERS, NEXT_USER_ID, call.arg)
            /\ \A r \in RuleIdsOf(USERS) : r < NEXT_RULE_ID
            /\ NEXT_RULE_ID = 0 \/ (NEXT_RULE_ID - 1) \in RuleIdsOf(USERS)

\* pop of the ids S from the map `before`, leaving `after` and returning r.
PopPost(before, after, S, r) ==
    /\ IsOk(r)
    /\ r.ok = {id \in S : id \notin DOMAIN before}
    /\ \A id \in S : id \notin DOMAIN after
    /\ \A id \in DOMAIN after : id \in DOMAIN before
    /\ \A id \in DOMAIN before : id \notin S => (id \in DOMAIN after /\ after[id] = before[id])

(***************************************************************************)
(* C15.  pop_X(S) returns exactly the ids of S that were not in the map;   *)
(* afterwards no id of S is in the map (get_X by S minus the returned set  *)
(* is empty) and every entity whose id is outside S is unchanged.          *)
(***************************************************************************)
C15_PopReturnsMissingAndRemoves ==
    [][/\ Serves("pop_slots") =>
            /\ PopPost(SLOTS, SLOTS', call'.arg, ret')
            /\ GetSlots(SLOTS', SlotsByIds(call'.arg \ ret'.ok)) = EmptyMap
       /\ Serves("pop_tasks") =>
            /\ PopPost(TASKS, TASKS', call'.arg, ret')
            /\ GetTasks(TASKS', TasksByIds(call'.arg \ ret'.ok)) = EmptyMap
       /\ Serves("pop_users") =>
            /\ PopPost(USERS, USERS', call'.arg, ret')
            /\ \A id \in call'.arg \ ret'.ok :
                    GetUsers(USERS', UsersByIds(<<id>>)) = EmptyMap]_vars

\* pop_slots({0, 2}) on the slots 0 and 1 has removed slot 0, kept slot 1
\* and returned {2}.
C15_Witness ==
    /\ call.op = "pop_slots"
    /\ call.arg = {0, 2}
    /\ ret = Ok({2})
    /\ DOMAIN SLOTS = {1}

\* A field with an Update: a given value is the field's new value, and the
\* field keeps its value when none is given.
FieldPost(update, old, new) ==
    /\ \A v \in update : new = v
    /\ update = None => new = old

\* The keys a create list names, and the value its last entry gives a key.
CreatedKeys(create) == {create[i][1] : i \in 1..Len(create)}
LastCreated(create, k) ==
    create[MaxOf({i \in 1..Len(create) : create[i][1] = k})][2]

\* A batch of deltas on the map `before`, leaving `after` and returning r:
\* the missing ids are returned and nothing outside the batch changes.
MutFrame(before, after, delta, r) ==
    /\ IsOk(r)
    /\ r.ok = {id \in DOMAIN delta : id \notin DOMAIN before}
    /\ DOMAIN after = DOMAIN before
    /\ \A id \in DOMAIN before : id \notin DOMAIN delta => after[id] = before[id]

SlotMutPost(d, old, new) ==
    /\ new.id = old.id
    /\ FieldPost(d.interval, old.interval, new.interval)
    /\ FieldPost(d.min_staff, old.min_staff, new.min_staff)
    /\ FieldPost(d.name, old.name, new.name)

TaskMutPost(d, old, new) ==
    /\ new.id = old.id
    /\ FieldPost(d.title, old.title, new.title)
    /\ FieldPost(d.desc, old.desc, new.desc)
    /\ FieldPost(d.deadline, old.deadline, new.deadline)
    /\ new.deps = (old.deps \ d.deps.delete) \cup Range(d.deps.create)
    /\ DOMAIN new.skills =
            (DOMAIN old.skills \ d.skills.delete) \cup CreatedKeys(d.skills.create)
    /\ \A k \in DOMAIN new.skills :
            new.skills[k] =
                IF k \in CreatedKeys(d.skills.create) THEN LastCreated(d.skills.create, k)
                ELSE IF k \in DOMAIN d.skills.update THEN d.skills.update[k]
                ELSE old.skills[k]

(***************************************************************************)
(* C16.  mut_tasks and mut_slots return exactly the requested ids that do  *)
(* not exist and still apply the rest of the batch; for each existing id   *)
(* every field given in the delta takes the new value, every field not     *)
(* given keeps its value, and the entities the request does not name are   *)
(* unchanged.                                                              *)
(***************************************************************************)
C16_MutAppliesBatch ==
    [][/\ Serves("mut_slots") =>
            /\ MutFrame(SLOTS, SLOTS', call'.arg, ret')
            /\ \A id \in DOMAIN SLOTS \cap DOMAIN call'.arg :
                    SlotMutPost(call'.arg[id], SLOTS[id], SLOTS'[id])
       /\ Serves("mut_tasks") =>
            /\ MutFrame(TASKS, TASKS', call'.arg, ret')
            /\ \A id \in DOMAIN TASKS \cap DOMAIN call'.arg :
                    TaskMutPost(call'.arg[id], TASKS[id], TASKS'[id])]_vars

\* mut_tasks({0: {title: "y"}, 2: ..}) on the tasks 0 and 1, both titled
\* "x": task 0 is titled "y" (get_tasks returns it), task 1 is as it was and
\* the missing id 2 is returned.
C16_Witness ==
    /\ call.op = "mut_tasks"
    /\ DOMAIN call.arg = {0, 2}
    /\ call.arg[0].title = Some("y")
    /\ ret = Ok({2})
    /\ DOMAIN TASKS = {0, 1}
    /\ GetTasks(TASKS, TasksByIds({0}))[0].title = "y"
    /\ TASKS[1].title = "x"

\* The rule ids of an availability delta that name no rule of the user.
UnappliedRules(d, user) ==
    (d.availability.delete \cup DOMAIN d.availability.update) \ DOMAIN user.availability

(***************************************************************************)
(* C17.  mut_users applies each delta to its existing user and completes   *)
(* normally, returning for each affected user the rule ids of the          *)
(* availability sub-delta that were not applied; the result is empty when  *)
(* every requested change succeeded.  The closure of mut_users ends in     *)
(* todo!(): the handler panics on the first entry of a non-empty request.  *)
(***************************************************************************)
C17_MutUsersReturnsUnapplied ==
    [][Serves("mut_users") =>
            LET delta == call'.arg
                affected == {id \in DOMAIN delta \cap DOMAIN USERS :
                                UnappliedRules(delta[id], USERS[id]) # {}}
            IN  /\ IsOk(ret')
                /\ ret'.ok = [id \in affected |-> UnappliedRules(delta[id], USERS[id])]
                /\ DOMAIN USERS' = DOMAIN USERS
                /\ \A id \in DOMAIN USERS \cap DOMAIN delta :
                        FieldPost(delta[id].name, USERS[id].name, USERS'[id].name)]_vars

(***************************************************************************)
(* SetDelta::apply and KeySetDelta::apply on their own: a request carries  *)
(* a collection and a delta, and the answer is the collection afterwards.  *)
(***************************************************************************)
DeltaKeys == {0, 1, 2}
DeltaValues == {"a", "b"}

\* FxHashMap<K, V> targets and SetDelta { delete, create, update } values.
DeltaTargets == MapsUpTo(DeltaKeys, DeltaValues, 2)
SetDeltas ==
    {[delete |-> d, create |-> c, update |-> u] :
        d \in SUBSET DeltaKeys,
        c \in SeqsUpTo(DeltaKeys \X DeltaValues, 2),
        u \in MapsUpTo(DeltaKeys, DeltaValues, 2)}
\* FxHashSet<K> targets and KeySetDelta { delete, create } values.
KeySetDeltas ==
    {[delete |-> d, create |-> c] :
        d \in SUBSET DeltaKeys, c \in SeqsUpTo(DeltaKeys, 2)}

DeltaFrame ==
    /\ UNCHANGED <<SLOTS, TASKS, USERS, NEXT_SLOT_ID, NEXT_TASK_ID, NEXT_USER_ID,
                   NEXT_RULE_ID, served, handlers>>
    /\ UNCHANGED algoVars

ApplySetDelta ==
    /\ Serving("delta")
    /\ \E target \in DeltaTargets, self \in SetDeltas :
        /\ call' = [op |-> "SetDelta::apply", arg |-> [self |-> self, target |-> target]]
        /\ ret' = Ok(SetDeltaApply(self, target))
    /\ DeltaFrame

ApplyKeySetDelta ==
    /\ Serving("delta")
    /\ \E target \in SUBSET DeltaKeys, self \in KeySetDeltas :
        /\ call' = [op |-> "KeySetDelta::apply", arg |-> [self |-> self, target |-> target]]
        /\ ret' = Ok(KeySetDeltaApply(self, target))
    /\ DeltaFrame

InitDelta ==
    /\ StoreInit
    /\ served = "delta"
    /\ tasks = NoTasks
    /\ users = NoUsers
    /\ slots = <<>>
    /\ pc = "start"
    /\ graph = [none |-> TRUE]
    /\ tos = <<>>
    /\ ordered = {}
    /\ order = <<>>
    /\ result = [none |-> TRUE]

NextDelta == ApplySetDelta \/ ApplyKeySetDelta \/ Respond

SpecDelta == InitDelta /\ [][NextDelta]_vars

\* A SetDelta or a KeySetDelta has just been applied.
AppliedSetDelta == call.op = "SetDelta::apply"
AppliedKeySetDelta == call.op = "KeySetDelta::apply"

(***************************************************************************)
(* C18 (as stated).  A collection delta is applied in the order delete,    *)
(* then update, then create: a key listed in both delete and update is     *)
(* absent afterwards, an update for a key not in the collection adds       *)
(* nothing, and every created entry is present afterwards.                 *)
(***************************************************************************)
C18_DeleteUpdateCreate ==
    /\ AppliedSetDelta =>
        LET self == call.arg.self
            target == call.arg.target
            after == ret.ok
        IN  /\ \A k \in self.delete \cap DOMAIN self.update : k \notin DOMAIN after
            /\ \A k \in DOMAIN self.update \ DOMAIN target :
                    k \in DOMAIN after => k \in CreatedKeys(self.create)
            /\ \A i \in 1..Len(self.create) :
                    /\ self.create[i][1] \in DOMAIN after
                    /\ after[self.create[i][1]] = self.create[i][2]
    /\ AppliedKeySetDelta => Range(call.arg.self.create) \subseteq ret.ok

(***************************************************************************)
(* C18 (amended).  A collection delta is applied in the order delete,      *)
(* then update, then create: a key listed in both delete and update is     *)
(* absent afterwards unless create lists it, an update for a key not in    *)
(* the collection adds nothing, and every created key is present           *)
(* afterwards, with the value of its last entry in create.                 *)
(***************************************************************************)
C18_DeleteUpdateCreateLastWins ==
    /\ AppliedSetDelta =>
        LET self == call.arg.self
            target == call.arg.target
            after == ret.ok
        IN  /\ \A k \in (self.delete \cap DOMAIN self.update) \ CreatedKeys(self.create) :
                    k \notin DOMAIN after
            /\ \A k \in DOMAIN self.update \ DOMAIN target :
                    k \in DOMAIN after => k \in CreatedKeys(self.create)
            /\ \A k \in CreatedKeys(self.create) :
                    /\ k \in DOMAIN after
                    /\ after[k] = LastCreated(self.create, k)
    /\ AppliedKeySetDelta => Range(call.arg.self.create) \subseteq ret.ok

\* A delta that deletes and updates a stored key, updates a key that is not
\* stored, and creates one key twice with different values, was applied.
C18_Witness ==
    /\ AppliedSetDelta
    /\ call.arg.target = (0 :> "a" @@ 1 :> "a")
    /\ call.arg.self = [delete |-> {0},
                        update |-> (0 :> "b" @@ 2 :> "b"),
                        create |-> << <<1, "a">>, <<1, "b">> >>]
    /\ ret = Ok((1 :> "b"))

\* The availability of a user after rules were added to it under ids.
WithRules(availability, ids, rules) ==
    [k \in DOMAIN availability \cup Range(ids) |->
        IF k \in DOMAIN availability THEN availability[k]
        ELSE LET i == CHOOSE i \in 1..Len(ids) : ids[i] = k
             IN  RuleFrom(k, rules[i])]

(***************************************************************************)
(* C19.  add_rules skips every batch entry whose user does not exist:      *)
(* that user is omitted from the result, no rule is created for it and     *)
(* the store is unchanged by that entry, while the entries for existing    *)
(* users in the same batch are all applied and get their new rule ids in   *)
(* the order provided: ids no rule of the store bears, ascending along     *)
(* the list, every rule of the list added to the rules the user had.       *)
(***************************************************************************)
C19_AddRulesSkipsMissingUsers ==
    [][Serves("add_rules") =>
            LET to_add == call'.arg
                present == DOMAIN to_add \cap DOMAIN USERS
            IN  /\ IsOk(ret')
                /\ DOMAIN ret'.ok = present
                /\ DOMAIN USERS' = DOMAIN USERS
                /\ \A u \in DOMAIN USERS \ DOMAIN to_add : USERS'[u] = USERS[u]
                /\ \A u \in present :
                    LET ids == ret'.ok[u] IN
                    /\ Len(ids) = Len(to_add[u])
                    /\ \A i, j \in 1..Len(ids) : i < j => ids[i] < ids[j]
                    /\ Range(ids) \cap RuleIdsOf(USERS) = {}
                    /\ USERS'[u] = [USERS[u] EXCEPT !.availability =
                                        WithRules(@, ids, to_add[u])]
                /\ RuleIdsOf(USERS') =
                        RuleIdsOf(USERS) \cup UNION {Range(ret'.ok[u]) : u \in present}]_vars

(***************************************************************************)
(* C20.  After any sequence of add_tasks, mut_tasks and pop_tasks calls,   *)
(* every TaskId in any stored task's deps is the id of a task that is in   *)
(* the task map.                                                           *)
(***************************************************************************)
C20_DepsReferToStoredTasks ==
    call.op \in {"add_tasks", "mut_tasks", "pop_tasks"} =>
        \A id \in DOMAIN TASKS : TASKS[id].deps \subseteq DOMAIN TASKS

(***************************************************************************)
(* C21.  After any sequence of add_users, mut_users and pop_users calls,   *)
(* every UserId that is a key of some stored user's user_prefs is the id   *)
(* of a user that is in the user map.                                      *)
(***************************************************************************)
C21_UserPrefsReferToStoredUsers ==
    call.op \in {"add_users", "mut_users", "pop_users"} =>
        \A id \in DOMAIN USERS : DOMAIN USERS[id].user_prefs \subseteq DOMAIN USERS

(***************************************************************************)
(* C22.  After any sequence of add_slots and mut_slots calls, every slot   *)
(* in the store has interval.start <= interval.end: a request carrying a   *)
(* reversed interval is rejected at construction and never stored.         *)
(***************************************************************************)
C22_StoredIntervalsNotReversed ==
    call.op \in {"add_slots", "mut_slots"} =>
        \A id \in DOMAIN SLOTS : SLOTS[id].interval.start <= SLOTS[id].interval.end

(***************************************************************************)
(* C23.  After any sequence of add_rules and mut_users calls, every rule   *)
(* stored in any user's availability has a non-empty include list.         *)
(***************************************************************************)
C23_StoredRulesIncludeNonEmpty ==
    call.op \in {"add_rules", "mut_users"} =>
        \A id \in DOMAIN USERS : \A k \in DOMAIN USERS[id].availability :
            USERS[id].availability[k].include # <<>>

\* get_rules has just answered a request that names a user the map does not
\* hold.
GotRulesOfMissingUser ==
    /\ call.op = "get_rules"
    /\ DOMAIN call.arg \ DOMAIN USERS # {}

(***************************************************************************)
(* C28 (as stated).  get_rules answers a request that names a user id not  *)
(* present in the user map with a 404 fault.                               *)
(***************************************************************************)
C28_GetRulesMissingUserFaults ==
    GotRulesOfMissingUser => ret = Fault(404)

(***************************************************************************)
(* C28 (amended).  get_rules answers a request that names a user id not    *)
(* present in the user map without a fault: that user is left out of the   *)
(* returned dictionary, which holds the users of the request that exist.   *)
(***************************************************************************)
C28_GetRulesOmitsMissingUser ==
    GotRulesOfMissingUser =>
        /\ IsOk(ret)
        /\ DOMAIN ret.ok = DOMAIN call.arg \cap DOMAIN USERS

\* A request for the rules of users 0 and 1 was answered while the map
\* held user 0, with a rule, and no user 1.
C28_Witness ==
    /\ call.op = "get_rules"
    /\ DOMAIN call.arg = {0, 1}
    /\ DOMAIN USERS = {0}
    /\ USERS[0].availability # EmptyMap
    /\ IsOk(ret)
    /\ DOMAIN ret.ok = {0}

(***************************************************************************)
(* The constructors and tests of the domain types on their own             *)
(* (src/src/srv/src/data): a request carries the arguments of one call and *)
(* the answer is what the function returns.                                *)
(***************************************************************************)
\* Proficiency (data/skill.rs) is an f32; four values keep its order, with
\* Proficiency::MIN the least and Proficiency::MAX (f32::MAX) the greatest.
Proficiency_MIN == 0
Proficiency_MAX == 3
Proficiencies == Proficiency_MIN..Proficiency_MAX

\* std::ops::Bound and the ranges handed to ProficiencyReq::new.
Bounds ==
    {[kind |-> "Unbounded"]} \cup
    {[kind |-> k, value |-> x] : k \in {"Included", "Excluded"}, x \in Proficiencies}
ProficiencyRanges == [start_bound : Bounds, end_bound : Bounds]

\* BoundExt::get: the value of an Included or Excluded bound.
BoundGet(b) == IF b.kind = "Unbounded" THEN None ELSE Some(b.value)
\* Option::unwrap_or.
UnwrapOr(o, default) == IF o = None THEN default ELSE Unwrap(o)
\* range_to_vals.
RangeToVals(range) ==
    <<UnwrapOr(BoundGet(range.start_bound), Proficiency_MIN),
      UnwrapOr(BoundGet(range.end_bound), Proficiency_MAX)>>

\* ProficiencyReq::new: Some when the soft range lies in the hard range.
ProficiencyReqNew(target, soft_range, hard_range) ==
    LET hard == RangeToVals(hard_range)
        soft == RangeToVals(soft_range)
    IN  IF hard[1] <= soft[1] /\ soft[2] <= hard[2]
        THEN Some([target |-> target, soft_min |-> soft[1], soft_max |-> soft[2],
                   hard_min |-> hard[1], hard_max |-> hard[2]])
        ELSE None

\* Bound: the greatest DateTime.  chrono's checked additions return None
\* past it.
MaxDateTime == 3
Instants == 0..MaxDateTime
\* The TimeIntervals that pass Deserialize: start <= end.
TimeIntervals ==
    {[start |-> p[1], end |-> p[2]] : p \in {q \in Instants \X Instants : q[1] <= q[2]}}

\* TimeInterval::_is_overlapping.
IsOverlapping(self, other) == ~(self.end < other.start \/ other.end < self.start)

\* DateTime::checked_add_signed.
CheckedAddSigned(date, delta) ==
    IF date + delta \in Instants THEN Some(date + delta) ELSE None

\* Frequency::checked_add_date: the seconds and minutes, then the days and
\* weeks, then the months and years are added; `hours` is not read.  The
\* unit of time is the second; a month counts as 30 days.
CheckedAddDate(every, date) ==
    CheckedAddSigned(date,
        (every.seconds + 60 * every.minutes)
        + 86400 * (every.days + 7 * every.weeks)
        + 2592000 * (every.months + 12 * every.years))

NoFrequency ==
    [seconds |-> 0, minutes |-> 0, hours |-> 0, days |-> 0, weeks |-> 0,
     months |-> 0, years |-> 0]
\* Frequencies: none, every second, every other second, every hour, every
\* day.
Frequencies ==
    {NoFrequency,
     [NoFrequency EXCEPT !.seconds = 1],
     [NoFrequency EXCEPT !.seconds = 2],
     [NoFrequency EXCEPT !.hours = 1],
     [NoFrequency EXCEPT !.days = 1]}
Repetitions == [every : Frequencies, start : Instants, until : {None} \cup {Some(t) : t \in Instants}]
Rules ==
    [include : SeqsUpTo(TimeIntervals, 1), rep : {None} \cup {Some(r) : r \in Repetitions},
     pref : {MAX}]

\* The closure of `any` in Rule::contains for one date of the repetition:
\* some include, moved by the date's offset from rep.start, contains the
\* interval; an include whose moved start or end is past the last DateTime
\* is left out (filter_map over zip).
InstanceContains(rule, rep, date, interval) ==
    LET offset == date - rep.start IN
    \E i \in 1..Len(rule.include) :
        LET t == rule.include[i] IN
        /\ CheckedAddSigned(t.start, offset) # None
        /\ CheckedAddSigned(t.end, offset) # None
        /\ Contains([start |-> t.start + offset, end |-> t.end + offset], interval)

\* The bounds test of Rule::contains.
WithinRepetition(rep, interval) ==
    /\ interval.start >= rep.start
    /\ \A end \in rep.until : interval.end <= end

\* RepetitionIter::next yields curr when it is Some and not past `until`.
Yields(rep, curr) == curr # None /\ \A end \in rep.until : Unwrap(curr) <= end

\* rep.iter().any(..) from the iterator state curr: TRUE at the first date
\* whose instance contains the interval, FALSE when the iterator ends
\* first.  A frequency that adds nothing yields one date for ever.
Diverges == [diverges |-> TRUE]
RECURSIVE AnyInstance(_, _, _, _)
AnyInstance(rule, rep, curr, interval) ==
    IF ~Yields(rep, curr) THEN Ok(FALSE)
    ELSE IF InstanceContains(rule, rep, Unwrap(curr), interval) THEN Ok(TRUE)
    ELSE IF CheckedAddDate(rep.every, Unwrap(curr)) = curr THEN Diverges
    ELSE AnyInstance(rule, rep, CheckedAddDate(rep.every, Unwrap(curr)), interval)

\* Rule::contains.
RuleContainsOverlapping(rule, interval) ==
    IF rule.rep = None
    THEN Ok(\E i \in 1..Len(rule.include) : IsOverlapping(rule.include[i], interval))
    ELSE Ok(FALSE)
RuleContains(rule, interval) ==
    IF rule.rep = None
    THEN Ok(\E i \in 1..Len(rule.include) : Contains(rule.include[i], interval))
    ELSE LET rep == Unwrap(rule.rep) IN
         IF ~WithinRepetition(rep, interval) THEN Ok(FALSE)
         ELSE AnyInstance(rule, rep, Some(rep.start), interval)

DataFrame ==
    /\ UNCHANGED <<SLOTS, TASKS, USERS, NEXT_SLOT_ID, NEXT_TASK_ID, NEXT_USER_ID,
                   NEXT_RULE_ID, served, handlers>>
    /\ UNCHANGED algoVars

ProficiencyReq_new ==
    /\ Serving("data")
    /\ \E target \in Proficiencies, soft_range, hard_range \in ProficiencyRanges :
        /\ call' = [op |-> "ProficiencyReq::new",
                    arg |-> [target |-> target, soft_range |-> soft_range,
                             hard_range |-> hard_range]]
        /\ ret' = Ok(ProficiencyReqNew(target, soft_range, hard_range))
    /\ DataFrame

TimeInterval_contains ==
    /\ Serving("data")
    /\ \E self, other \in TimeIntervals :
        /\ call' = [op |-> "TimeInterval::contains", arg |-> [self |-> self, other |-> other]]
        /\ ret' = Ok(Contains(self, other))
    /\ DataFrame

TimeInterval_is_overlapping ==
    /\ Serving("data")
    /\ \E self, other \in TimeIntervals :
        /\ call' = [op |-> "TimeInterval::_is_overlapping",
                    arg |-> [self |-> self, other |-> other]]
        /\ ret' = Ok(IsOverlapping(self, other))
    /\ DataFrame

Rule_contains ==
    /\ Serving("data")
    /\ \E self \in Rules, interval \in TimeIntervals :
        /\ call' = [op |-> "Rule::contains", arg |-> [self |-> self, interval |-> interval]]
        /\ ret' = RuleContains(self, interval)
    /\ DataFrame

Frequency_checked_add_date ==
    /\ Serving("data")
    /\ \E self \in Frequencies, date \in Instants :
        /\ call' = [op |-> "Frequency::checked_add_date",
                    arg |-> [self |-> self, date |-> date]]
        /\ ret' = Ok(CheckedAddDate(self, date))
    /\ DataFrame

InitData ==
    /\ StoreInit
    /\ served = "data"
    /\ tasks = NoTasks
    /\ users = NoUsers
    /\ slots = <<>>
    /\ pc = "start"
    /\ graph = [none |-> TRUE]
    /\ tos = <<>>
    /\ ordered = {}
    /\ order = <<>>
    /\ result = [none |-> TRUE]

NextData ==
    \/ ProficiencyReq_new \/ TimeInterval_contains \/ TimeInterval_is_overlapping
    \/ Rule_contains \/ Frequency_checked_add_date \/ Respond

SpecData == InitData /\ [][NextData]_vars

(***************************************************************************)
(* C24.  Every ProficiencyReq that ProficiencyReq::new returns satisfies   *)
(* hard_min <= soft_min <= target <= soft_max <= hard_max; for any other   *)
(* combination of target, soft range and hard range it returns None.       *)
(***************************************************************************)
C24_ProficiencyReqOrdered ==
    call.op = "ProficiencyReq::new" =>
        LET soft == RangeToVals(call.arg.soft_range)
            hard == RangeToVals(call.arg.hard_range)
            ordered_ == /\ hard[1] <= soft[1]
                        /\ soft[1] <= call.arg.target
                        /\ call.arg.target <= soft[2]
                        /\ soft[2] <= hard[2]
        IN  /\ \A r \in ret.ok :
                /\ r.hard_min <= r.soft_min
                /\ r.soft_min <= r.target
                /\ r.target <= r.soft_max
                /\ r.soft_max <= r.hard_max
            /\ ~ordered_ => ret.ok = None

\* The instants of a half-open interval [start, end).
InstantsOf(t) == {x \in Instants : t.start <= x /\ x < t.end}

(***************************************************************************)
(* C25.  For all pairs of intervals with start <= end,                     *)
(* TimeInterval::contains and the overlap test agree with half-open        *)
(* interval semantics [start, end): a contains b iff every instant of b    *)
(* is an instant of a, and a overlaps b iff they share at least one        *)
(* instant (two intervals that only touch at an endpoint do not overlap).  *)
(***************************************************************************)
C25_HalfOpenSemantics ==
    /\ call.op = "TimeInterval::contains" =>
        (ret.ok <=> InstantsOf(call.arg.other) \subseteq InstantsOf(call.arg.self))
    /\ call.op = "TimeInterval::_is_overlapping" =>
        (ret.ok <=> InstantsOf(call.arg.other) \cap InstantsOf(call.arg.self) # {})

(***************************************************************************)
(* C26.  Rule::contains is monotone in the query: for every rule, with or  *)
(* without a repetition, if the rule contains interval I and I' lies       *)
(* within I, then the rule contains I'.                                    *)
(***************************************************************************)
C26_RuleContainsMonotone ==
    (call.op = "Rule::contains" /\ ret = Ok(TRUE)) =>
        \A interval \in TimeIntervals :
            Contains(call.arg.interval, interval) =>
                RuleContains(call.arg.self, interval) = Ok(TRUE)

\* A repeating rule contains an interval, in its second instance, within
\* which a shorter interval lies.
C26_Witness ==
    /\ call.op = "Rule::contains"
    /\ ret = Ok(TRUE)
    /\ call.arg.self.rep # None
    /\ call.arg.self.include = <<[start |-> 0, end |-> 2]>>
    /\ call.arg.interval = [start |-> 1, end |-> 3]

(***************************************************************************)
(* Rule::contains step by step: the bounds test, then one step for each    *)
(* call of RepetitionIter::next with the closure of `any` on the date it   *)
(* yields.  The traversal in flight is handlers[1].                        *)
(***************************************************************************)
TraversalFrame ==
    /\ UNCHANGED <<SLOTS, TASKS, USERS, NEXT_SLOT_ID, NEXT_TASK_ID, NEXT_USER_ID,
                   NEXT_RULE_ID, served>>
    /\ UNCHANGED algoVars

\* Repetition::iter.
RepetitionIter(rep) == [rep |-> rep, curr |-> Some(rep.start), date |-> None]

\* Rule::contains up to the first call of next: a rule without repetition
\* and a query that fails the bounds test return at once.
Rule_contains_enter ==
    /\ Serving("traversal")
    /\ \E self \in Rules, interval \in TimeIntervals :
        /\ call' = [op |-> "Rule::contains", arg |-> [self |-> self, interval |-> interval]]
        /\ IF self.rep = None
           THEN /\ ret' = Ok(\E i \in 1..Len(self.include) : Contains(self.include[i], interval))
                /\ UNCHANGED handlers
           ELSE IF ~WithinRepetition(Unwrap(self.rep), interval)
           THEN /\ ret' = Ok(FALSE)
                /\ UNCHANGED handlers
           ELSE /\ ret' = [none |-> TRUE]
                /\ handlers' = (1 :> RepetitionIter(Unwrap(self.rep)))
    /\ TraversalFrame

\* One step of rep.iter().any(..): RepetitionIter::next, then the closure
\* on the date it yielded.  `any` returns false when next returns None and
\* true when the closure does; otherwise it calls next again.
RepetitionIter_next ==
    /\ call.op = "Rule::contains"
    /\ 1 \in DOMAIN handlers
    /\ LET iter == handlers[1] IN
        IF ~Yields(iter.rep, iter.curr)
        THEN /\ ret' = Ok(FALSE)
             /\ handlers' = EmptyMap
        ELSE LET date == Unwrap(iter.curr) IN
             IF InstanceContains(call.arg.self, iter.rep, date, call.arg.interval)
             THEN /\ ret' = Ok(TRUE)
                  /\ handlers' = EmptyMap
             ELSE /\ handlers' = (1 :> [iter EXCEPT !.curr = CheckedAddDate(iter.rep.every, date),
                                                    !.date = Some(date)])
                  /\ UNCHANGED ret
    /\ UNCHANGED call
    /\ TraversalFrame

\* The result goes back to the caller once the traversal has ended.
Rule_contains_return ==
    /\ call.op = "Rule::contains"
    /\ IsOk(ret)
    /\ call' = [op |-> "none"]
    /\ ret' = [none |-> TRUE]
    /\ UNCHANGED handlers
    /\ TraversalFrame

InitTraversal ==
    /\ StoreInit
    /\ served = "traversal"
    /\ tasks = NoTasks
    /\ users = NoUsers
    /\ slots = <<>>
    /\ pc = "start"
    /\ graph = [none |-> TRUE]
    /\ tos = <<>>
    /\ ordered = {}
    /\ order = <<>>
    /\ result = [none |-> TRUE]

NextTraversal == Rule_contains_enter \/ RepetitionIter_next \/ Rule_contains_return

\* A call that has begun runs on: the thread that runs Rule::contains is
\* not starved.
SpecTraversal ==
    InitTraversal /\ [][NextTraversal]_vars /\ WF_vars(RepetitionIter_next)

\* The frequency has a field that is not zero.
NonZero(every) == every # NoFrequency

(***************************************************************************)
(* C27.  Rule::contains stops traversing a repetition as soon as a         *)
(* generated datetime exceeds the upper bound of the query interval (no    *)
(* traversal goes on after the closure saw a date past interval.end), so   *)
(* for a rule whose repetition has a non-zero frequency and no until, a    *)
(* call in which no instance contains the query returns all the same.      *)
(***************************************************************************)
C27_TraversalStopsAtQueryEnd ==
    /\ [](\A h \in DOMAIN handlers :
            \A date \in handlers[h].date : date <= call.arg.interval.end)
    /\ ((/\ call.op = "Rule::contains"
         /\ call.arg.self.rep # None
         /\ NonZero(Unwrap(call.arg.self.rep).every)
         /\ Unwrap(call.arg.self.rep).until = None)
            ~> IsOk(ret))

(***************************************************************************)
(* add_tasks handlers running concurrently with one wipe_tasks or          *)
(* load_tasks handler, handlers[0].  The write lock is held for the        *)
(* statement that writes the map; TaskId::store is a statement of its own  *)
(* after the lock was released.                                            *)
(***************************************************************************)
\* The requests in flight: one task each for add_tasks; a file of one row
\* for load_tasks.
RaceTaskLists == {l \in ConcTaskLists : Len(l) = 1}
RaceFiles == {f \in TaskFiles : Len(f) = 1 /\ f[1].deps = {}}
RaceWriters ==
    {[pc |-> "start", op |-> "wipe_tasks", rows |-> <<>>]} \cup
    {[pc |-> "start", op |-> "load_tasks", rows |-> f] : f \in RaceFiles}

InitRace ==
    /\ SLOTS = EmptyMap
    /\ TASKS = EmptyMap
    /\ USERS = EmptyMap
    /\ NEXT_SLOT_ID = 0
    /\ NEXT_TASK_ID = 0
    /\ NEXT_USER_ID = 0
    /\ NEXT_RULE_ID = 0
    /\ served = "task"
    /\ call = [op |-> "none"]
    /\ ret = [none |-> TRUE]
    /\ \E adds \in [HandlerIds -> {[pc |-> "start", to_add |-> l, ids |-> <<>>,
                                    ret |-> [none |-> TRUE]] : l \in RaceTaskLists}],
          writer \in RaceWriters :
            handlers = (0 :> writer) @@ adds
    /\ tasks = NoTasks
    /\ users = NoUsers
    /\ slots = <<>>
    /\ pc = "start"
    /\ graph = [none |-> TRUE]
    /\ tos = <<>>
    /\ ordered = {}
    /\ order = <<>>
    /\ result = [none |-> TRUE]

\* **TASKS.write() = rows read from the file.
RaceLoadWrite ==
    /\ handlers[0].op = "load_tasks"
    /\ handlers[0].pc = "start"
    /\ LET rows == handlers[0].rows IN
        TASKS' = ExtendMap(EmptyMap, [i \in 1..Len(rows) |-> <<rows[i].id, rows[i]>>])
    /\ handlers' = [handlers EXCEPT ![0].pc = "written"]
    /\ UNCHANGED NEXT_TASK_ID
    /\ ConcFrame

\* TaskId::store(next_id); Ok(())
RaceLoadStore ==
    /\ handlers[0].op = "load_tasks"
    /\ handlers[0].pc = "written"
    /\ LET rows == handlers[0].rows IN
        NEXT_TASK_ID' = NextIdAfter({rows[i].id : i \in 1..Len(rows)})
    /\ handlers' = [handlers EXCEPT ![0].pc = "returned"]
    /\ UNCHANGED TASKS
    /\ ConcFrame

\* TASKS.write().clear();
RaceWipeClear ==
    /\ handlers[0].op = "wipe_tasks"
    /\ handlers[0].pc = "start"
    /\ TASKS' = EmptyMap
    /\ handlers' = [handlers EXCEPT ![0].pc = "written"]
    /\ UNCHANGED NEXT_TASK_ID
    /\ ConcFrame

\* TaskId::store(0); Ok(())
RaceWipeStore ==
    /\ handlers[0].op = "wipe_tasks"
    /\ handlers[0].pc = "written"
    /\ NEXT_TASK_ID' = 0
    /\ handlers' = [handlers EXCEPT ![0].pc = "returned"]
    /\ UNCHANGED TASKS
    /\ ConcFrame

NextRace ==
    \/ ConcTake \/ ConcExtend \/ ConcReturn
    \/ RaceLoadWrite \/ RaceLoadStore \/ RaceWipeClear \/ RaceWipeStore

SpecRace == InitRace /\ [][NextRace]_vars

(***************************************************************************)
(* C29.  In any interleaving of add_tasks handlers with a wipe_tasks or    *)
(* load_tasks handler, the ids under which an add_tasks handler inserts    *)
(* are not keys of the map at the moment of insertion: add_tasks never     *)
(* replaces a task that is in the store.                                   *)
(***************************************************************************)
C29_AddNeverReplaces ==
    [][\A h \in HandlerIds :
        (handlers[h].pc = "taken" /\ handlers'[h].pc = "extended") =>
            Range(handlers[h].ids) \cap DOMAIN TASKS = {}]_vars

(***************************************************************************)
(* C30.  When Schedule::generate ranks the candidates of a slot (it sorts  *)
(* them when the slot has no min_staff or more candidates than min_staff), *)
(* each candidate is ranked by the maximum preference among its            *)
(* availability rules that contain the slot's interval with preference     *)
(* > -inf: under every iteration order of the user map, no candidate       *)
(* stands before one whose maximum is greater.                             *)
(***************************************************************************)
C30_RankedByMaxPreference ==
    Finished =>
        \A i \in 1..Len(slots) : \A ord \in Orderings(DOMAIN users) :
            LET candidates == Candidates(users, ord, slots[i])
                ranked == SortCandidates(users, slots[i], candidates)
                n == slots[i].min_staff
            IN  (n = 0 \/ Len(candidates) > n) =>
                    \A a, b \in 1..Len(ranked) :
                        a < b => BestPref(ranked[a], slots[i].interval)
                                    >= BestPref(ranked[b], slots[i].interval)

(***************************************************************************)
(* C31.  Schedule::generate is deterministic in its inputs: candidates     *)
(* that tie on preference are ordered by user id, so what generate returns *)
(* (the staff set of every slot) is the same under every iteration order   *)
(* of the user map.                                                        *)
(***************************************************************************)
C31_StaffIndependentOfOrder ==
    Finished =>
        \A ord \in Orderings(DOMAIN users) : GenerateResult(graph, ord) = result

\* The frequency whose only component is `hours`.
HoursOnly(every) == every.hours # 0 /\ [every EXCEPT !.hours = 0] = NoFrequency

(***************************************************************************)
(* C32.  Advancing a datetime by a Frequency adds seconds + 60*minutes +   *)
(* 3600*hours as an exact duration, then days + 7*weeks as days, then      *)
(* months + 12*years as months (None past the last DateTime); a Frequency  *)
(* whose only non-zero component is hours never yields the datetime it was *)
(* given or an earlier one.                                                *)
(***************************************************************************)
C32_AdvanceAddsEveryComponent ==
    call.op = "Frequency::checked_add_date" =>
        LET every == call.arg.self
            date == call.arg.date
            advanced == date + (every.seconds + 60 * every.minutes + 3600 * every.hours)
                             + 86400 * (every.days + 7 * every.weeks)
                             + 2592000 * (every.months + 12 * every.years)
        IN  /\ ret.ok = (IF advanced \in Instants THEN Some(advanced) ELSE None)
            /\ HoursOnly(every) => \A next \in ret.ok : next > date

\* The keys of `store` that pass a present ids field (`listed`: the ids it
\* holds) and the test `others` on the fields that are not ids.
Selected(store, ids, listed(_), others(_)) ==
    {k \in DOMAIN store : (ids = None \/ k \in listed(Unwrap(ids))) /\ others(store[k])}

(***************************************************************************)
(* C33.  get_slots, get_tasks and get_users return exactly the stored      *)
(* entities that satisfy every filter field that is present: an absent ids *)
(* field does not filter, a present ids set restricts the result to its    *)
(* members whatever the other fields say, and a present but empty ids set  *)
(* returns nothing.  Beside ids the requests carry a deadline_before, which *)
(* a task without deadline does not satisfy.                               *)
(***************************************************************************)
C33_GetReturnsFiltered ==
    /\ call.op = "get_slots" =>
        LET others(slot) ==
                \/ call.arg.min_staff_min = None
                \/ /\ slot.min_staff # None
                   /\ Unwrap(slot.min_staff) >= Unwrap(call.arg.min_staff_min)
            same(S) == S
        IN  /\ IsOk(ret)
            /\ DOMAIN ret.ok = Selected(SLOTS, call.arg.ids, same, others)
            /\ \A k \in DOMAIN ret.ok : ret.ok[k] = PySlotFrom(SLOTS[k])
            /\ call.arg.ids = Some({}) => DOMAIN ret.ok = {}
    /\ call.op = "get_tasks" =>
        LET others(task) ==
                \/ call.arg.deadline_before = None
                \/ /\ task.deadline # None
                   /\ Unwrap(task.deadline) <= Unwrap(call.arg.deadline_before)
            same(S) == S
        IN  /\ IsOk(ret)
            /\ DOMAIN ret.ok = Selected(TASKS, call.arg.ids, same, others)
            /\ \A k \in DOMAIN ret.ok : ret.ok[k] = PyTaskFrom(TASKS[k])
            /\ call.arg.ids = Some({}) => DOMAIN ret.ok = {}
    /\ call.op = "get_users" =>
        LET others(user) ==
                \/ call.arg.name_pat = None
                \/ user.name \in Unwrap(call.arg.name_pat)
        IN  /\ IsOk(ret)
            /\ DOMAIN ret.ok = Selected(USERS, call.arg.ids, Range, others)
            /\ \A k \in DOMAIN ret.ok : ret.ok[k] = PyUserFrom(USERS[k])
            /\ call.arg.ids = Some(<<>>) => DOMAIN ret.ok = {}

\* get_tasks with ids and deadline_before present: of the two stored tasks
\* the ids name, the one whose deadline is early enough is returned.
C33_Witness ==
    /\ call.op = "get_tasks"
    /\ call.arg.ids = Some({0, 1})
    /\ call.arg.deadline_before = Some(1)
    /\ DOMAIN TASKS = {0, 1}
    /\ IsOk(ret)
    /\ Cardinality(DOMAIN ret.ok) = 1

(***************************************************************************)
(* The store locks.  SLOTS, TASKS and USERS are parking_lot RwLocks; the   *)
(* handlers registered by `register` run concurrently, each taking the     *)
(* locks its body names, in program order, and dropping its guards when    *)
(* the statement or the function ends.                                     *)
(***************************************************************************)
Read(lock) == [lock |-> lock, mode |-> "read"]
Write(lock) == [lock |-> lock, mode |-> "write"]

\* The handlers `register` registers that touch the store, and quit.
Registered ==
    {"add_rules", "add_slots", "add_tasks", "add_users",
     "get_rules", "get_slots", "get_tasks", "get_users",
     "mut_slots", "mut_tasks", "mut_users",
     "pop_rules", "pop_slots", "pop_tasks", "pop_users",
     "save_slots", "save_tasks", "save_users",
     "load_slots", "load_tasks", "load_users",
     "wipe_slots", "wipe_tasks", "wipe_users", "quit"}

\* Handlers that take the locks of two stores, in opposite orders.
AcquiresNested(op) ==
    IF op = "mut_tasks" THEN <<Write("TASKS"), Read("USERS")>>
    ELSE IF op = "mut_users" THEN <<Write("USERS"), Read("TASKS")>>
    ELSE <<>>
\* The X.read() and X.write() calls in the body of each handler.
Acquires(op) ==
    CASE op \in {"add_slots", "mut_slots", "pop_slots", "load_slots", "wipe_slots"} ->
            <<Write("SLOTS")>>
      [] op \in {"add_tasks", "mut_tasks", "pop_tasks", "load_tasks", "wipe_tasks"} ->
            <<Write("TASKS")>>
      [] op \in {"add_users", "add_rules", "mut_users", "pop_users", "pop_rules",
                 "load_users", "wipe_users"} ->
            <<Write("USERS")>>
      [] op = "get_slots" \/ op = "save_slots" -> <<Read("SLOTS")>>
      [] op = "get_tasks" \/ op = "save_tasks" -> <<Read("TASKS")>>
      [] op \in {"get_users", "get_rules", "save_users"} -> <<Read("USERS")>>
      [] OTHER -> <<>>

\* The guards handler h holds.
Held(h) == Range(handlers[h].held)

\* RwLock: a writer needs the lock free of every guard, a reader of every
\* write guard.
LockAvailable(l) ==
    \A h \in HandlerIds : \A g \in Held(h) :
        g.lock = l.lock => (l.mode = "read" /\ g.mode = "read")

LockFrame ==
    /\ UNCHANGED <<SLOTS, TASKS, USERS, NEXT_SLOT_ID, NEXT_TASK_ID, NEXT_USER_ID,
                   NEXT_RULE_ID, served, call, ret>>
    /\ UNCHANGED algoVars

\* The next X.read() or X.write() of handler h; it blocks until the lock is
\* available.
CanAcquire(h) ==
    /\ handlers[h].pc = "running"
    /\ Len(handlers[h].held) < Len(Acquires(handlers[h].op))
    /\ LockAvailable(Acquires(handlers[h].op)[Len(handlers[h].held) + 1])
LockAcquire(h) ==
    /\ CanAcquire(h)
    /\ handlers' = [handlers EXCEPT
            ![h].held = Append(@, Acquires(handlers[h].op)[Len(@) + 1])]
    /\ LockFrame

\* The body is through: the guards are dropped and the handler returns.
CanReturn(h) ==
    /\ handlers[h].pc = "running"
    /\ Len(handlers[h].held) = Len(Acquires(handlers[h].op))
HandlerReturn(h) ==
    /\ CanReturn(h)
    /\ handlers' = [handlers EXCEPT ![h].held = <<>>, ![h].pc = "returned"]
    /\ LockFrame

InitLocks ==
    /\ SLOTS = EmptyMap
    /\ TASKS = EmptyMap
    /\ USERS = EmptyMap
    /\ NEXT_SLOT_ID = 0
    /\ NEXT_TASK_ID = 0
    /\ NEXT_USER_ID = 0
    /\ NEXT_RULE_ID = 0
    /\ served = "locks"
    /\ call = [op |-> "none"]
    /\ ret = [none |-> TRUE]
    /\ handlers \in [HandlerIds -> {[pc |-> "running", op |-> op, held |-> <<>>] :
                                        op \in Registered}]
    /\ tasks = NoTasks
    /\ users = NoUsers
    /\ slots = <<>>
    /\ pc = "start"
    /\ graph = [none |-> TRUE]
    /\ tos = <<>>
    /\ ordered = {}
    /\ order = <<>>
    /\ result = [none |-> TRUE]

LocksAcquire == \E h \in HandlerIds : LockAcquire(h)
LocksReturn == \E h \in HandlerIds : HandlerReturn(h)
NextLocks == LocksAcquire \/ LocksReturn

SpecLocks == InitLocks /\ [][NextLocks]_vars

(***************************************************************************)
(* C34.  Every RPC handler holds at most one of the three store locks at   *)
(* a time and holds none once it has returned, and no interleaving of      *)
(* concurrently running handlers deadlocks: while a handler has not        *)
(* returned, some handler can take its next step.                          *)
(***************************************************************************)
C34_OneLockNoDeadlock ==
    /\ \A h \in HandlerIds :
        /\ Cardinality(Held(h)) <= 1
        /\ handlers[h].pc = "returned" => Held(h) = {}
    /\ (\E h \in HandlerIds : handlers[h].pc # "returned") =>
            \E h \in HandlerIds : CanAcquire(h) \/ CanReturn(h)

\* mut_users holds the write lock of USERS while get_users waits for it.
C34_Witness ==
    /\ handlers[1].op = "mut_users"
    /\ Held(1) = {Write("USERS")}
    /\ handlers[2].op = "get_users"
    /\ handlers[2].pc = "running"
    /\ ~CanAcquire(2)

\* The ids 0, 1, ... one per spec of the request.
FromZero(specs) == [i \in 1..Len(specs) |-> i - 1]

(***************************************************************************)
(* C35.  wipe_X leaves the map of its kind empty and its id counter 0, so  *)
(* the next add_X (on the empty map with the counter at 0) issues the ids  *)
(* 0, 1, ...; wipe_users also sets the rule id counter to 0; the maps and  *)
(* counters of the other kinds are unchanged.                              *)
(***************************************************************************)
C35_WipeResetsMapAndCounter ==
    [][/\ Serves("wipe_slots") =>
            /\ SLOTS' = EmptyMap /\ NEXT_SLOT_ID' = 0
            /\ UNCHANGED <<TASKS, USERS, NEXT_TASK_ID, NEXT_USER_ID, NEXT_RULE_ID>>
       /\ Serves("wipe_tasks") =>
            /\ TASKS' = EmptyMap /\ NEXT_TASK_ID' = 0
            /\ UNCHANGED <<SLOTS, USERS, NEXT_SLOT_ID, NEXT_USER_ID, NEXT_RULE_ID>>
       /\ Serves("wipe_users") =>
            /\ USERS' = EmptyMap /\ NEXT_USER_ID' = 0 /\ NEXT_RULE_ID' = 0
            /\ UNCHANGED <<SLOTS, TASKS, NEXT_SLOT_ID, NEXT_TASK_ID>>
       /\ (Serves("add_slots") /\ SLOTS = EmptyMap /\ NEXT_SLOT_ID = 0) =>
            ret' = Ok(FromZero(call'.arg))
       /\ (Serves("add_tasks") /\ TASKS = EmptyMap /\ NEXT_TASK_ID = 0) =>
            ret' = Ok(FromZero(call'.arg))
       /\ (Serves("add_users") /\ USERS = EmptyMap /\ NEXT_USER_ID = 0) =>
            ret' = Ok(FromZero(call'.arg))]_vars

\* wipe_users has returned: no user is left and both counters are 0.
C35_Witness ==
    /\ call.op = "wipe_users"
    /\ ret = Ok(<<>>)
    /\ USERS = EmptyMap
    /\ NEXT_USER_ID = 0
    /\ NEXT_RULE_ID = 0

(***************************************************************************)
(* Graph::bfs and Graph::dfs (math.rs), one step for each Iterator::next.  *)
(* `graph` is the adjacency of every vertex, `tos` the queue or the stack, *)
(* `ordered` the visited set, `order` the vertices yielded so far and      *)
(* `result` the call: the search and its roots.                            *)
(***************************************************************************)
GraphVerts == {0, 1, 2}
\* Graph::from_forward: every vertex with the list of the vertices it
\* points to, each of them a vertex of the graph.
AdjLists == UNION {Orderings(S) : S \in SUBSET GraphVerts}
Graphs == [GraphVerts -> AdjLists]
RootLists == UNION {Orderings(S) : S \in {T \in SUBSET GraphVerts : Cardinality(T) \in {1, 2}}}

\* Graph::adjacent.
Adjacent(g, v) == g[v]

Rev(s) == [i \in 1..Len(s) |-> s[Len(s) + 1 - i]]

GraphFrame ==
    /\ UNCHANGED <<tasks, users, slots, graph>>
    /\ UNCHANGED storeVars

\* Graph::bfs(roots): BfsIter::new.
Graph_bfs ==
    /\ pc = "start"
    /\ \E roots \in RootLists :
        /\ tos' = roots
        /\ ordered' = Range(roots)
        /\ result' = [search |-> "bfs", roots |-> Range(roots)]
    /\ order' = <<>>
    /\ pc' = "bfs"
    /\ GraphFrame

\* adj.iter().filter(|a| visited.insert(a)): the vertices not yet visited.
Unvisited(adj, visited) == LET new(a) == a \notin visited IN SelectSeq(adj, new)

\* BfsIter::next: Some(v) for the front of the queue, None when it is empty.
BfsIter_next ==
    /\ pc = "bfs"
    /\ IF tos # <<>>
       THEN LET v == Head(tos)
                new == Unvisited(Adjacent(graph, v), ordered)
            IN  /\ tos' = Tail(tos) \o new
                /\ ordered' = ordered \cup Range(new)
                /\ order' = Append(order, v)
                /\ pc' = "bfs"
       ELSE /\ pc' = "done"
            /\ UNCHANGED <<tos, ordered, order>>
    /\ UNCHANGED result
    /\ GraphFrame

\* Graph::dfs(root): DfsIter::new.
Graph_dfs ==
    /\ pc = "start"
    /\ \E root \in GraphVerts :
        /\ tos' = <<root>>
        /\ result' = [search |-> "dfs", roots |-> {root}]
    /\ ordered' = {}
    /\ order' = <<>>
    /\ pc' = "dfs"
    /\ GraphFrame

\* DfsIter::next: the top of the stack is popped and returned; its
\* neighbours are pushed if it had not been visited.
DfsIter_next ==
    /\ pc = "dfs"
    /\ IF tos # <<>>
       THEN LET v == tos[Len(tos)]
                popped == SubSeq(tos, 1, Len(tos) - 1)
            IN  /\ IF v \notin ordered
                   THEN /\ ordered' = ordered \cup {v}
                        /\ tos' = popped \o Rev(Adjacent(graph, v))
                   ELSE /\ tos' = popped
                        /\ UNCHANGED ordered
                /\ order' = Append(order, v)
                /\ pc' = "dfs"
       ELSE /\ pc' = "done"
            /\ UNCHANGED <<tos, ordered, order>>
    /\ UNCHANGED result
    /\ GraphFrame

InitGraph ==
    /\ graph \in Graphs
    /\ tasks = NoTasks
    /\ users = NoUsers
    /\ slots = <<>>
    /\ pc = "start"
    /\ tos = <<>>
    /\ ordered = {}
    /\ order = <<>>
    /\ result = [none |-> TRUE]
    /\ StoreInit
    /\ served = "none"

NextGraph == Graph_bfs \/ BfsIter_next \/ Graph_dfs \/ DfsIter_next

SpecGraph == InitGraph /\ [][NextGraph]_vars

\* The vertices reachable from the roots, the roots included.
ReachableFrom(g, roots) ==
    Reach(roots, {e \in GraphVerts \X GraphVerts : e[2] \in Range(g[e[1]])})

(***************************************************************************)
(* C36.  For every directed graph, including graphs where a vertex is      *)
(* reachable along more than one path, Graph::bfs and Graph::dfs each      *)
(* yield every vertex reachable from the given root(s) exactly once: when  *)
(* the iterator is exhausted, the vertices yielded are the reachable ones  *)
(* and none was yielded twice.                                             *)
(***************************************************************************)
C36_EveryReachableVertexOnce ==
    pc = "done" =>
        /\ Range(order) = ReachableFrom(graph, result.roots)
        /\ \A i, j \in 1..Len(order) : order[i] = order[j] => i = j

====
